---- MODULE Spec2Model ----
(***************************************************************************)
(* State-machine model of simcradarlib's ODIM polar-volume hierarchy       *)
(* (simcradarlib/odim/odim_pvol.py, odim_utils.py).                         *)
(*                                                                         *)
(* A hierarchical store (an HDF5 file) is a record of its groups; the      *)
(* in-memory OdimHierarchyPvol is a record of its instance attributes.     *)
(* Elevation angles are integers (tenths of a degree), raw arrays are      *)
(* integers (one representative cell), an absent group or attribute is     *)
(* the empty sequence and a present one a one-element sequence.            *)
(***************************************************************************)
EXTENDS Integers, Sequences, FiniteSets, TLC

\* ------------------------------------------------------------------ bounds

\* largest number of dataset<n> groups (elevations) of an input volume
MaxElev == 2

\* largest number of data<m> groups (quantities) of one elevation
MaxData == 2

\* ------------------------------------------------------------- value domains

\* elevation angles that occur in volumes
ElAngles == {5, 14}

\* the angles a caller looks up: those of the volumes and one that no volume has
LookupAngles == ElAngles \cup {9}

\* quantity names that occur in volumes
Quantities == {"DBZH", "Z_VD"}

\* the quantity names a caller looks up: those of the volumes and one that no volume has
LookupQuantities == Quantities \cup {"VRAD"}

\* what.gain of the data groups of the input volumes, one per quantity
GainOf(q) == IF q = "DBZH" THEN 2 ELSE 3

\* what.offset of the data groups of the input volumes, one per quantity
OffsetOf(q) == IF q = "DBZH" THEN 1 ELSE 0

\* ------------------------------------------------------------------ helpers

Max2(a, b) == IF a >= b THEN a ELSE b

\* Python's max() of a non-empty list
RECURSIVE MaxOfSeq(_)
MaxOfSeq(s) ==
    IF Len(s) = 1 THEN s[1] ELSE Max2(s[1], MaxOfSeq(Tail(s)))

\* x in list
InSeq(x, s) == \E i \in 1..Len(s) : s[i] = x

\* list.index(x), 1-based; 0 stands for the ValueError of an absent element
IndexOf(x, s) ==
    IF InSeq(x, s) THEN CHOOSE i \in 1..Len(s) : s[i] = x /\ \A j \in 1..(i - 1) : s[j] # x
    ELSE 0

\* list.remove(x): the list without the first occurrence of x
RemoveFirst(x, s) ==
    LET k == IndexOf(x, s)
    IN IF k = 0 THEN s ELSE SubSeq(s, 1, k - 1) \o SubSeq(s, k + 1, Len(s))

\* h5py enumerates the members of a group by name, as strings: "dataset10"
\* comes before "dataset2".  Names are the numbers 1..99 of dataset<n>, data<m>.
LexLess(a, b) ==
    LET a1 == IF a < 10 THEN a ELSE a \div 10
        b1 == IF b < 10 THEN b ELSE b \div 10
    IN IF a1 # b1 THEN a1 < b1
       ELSE IF a < 10 THEN b >= 10
       ELSE IF b < 10 THEN FALSE
       ELSE (a % 10) < (b % 10)

\* the keys of a group in h5py's enumeration order
RECURSIVE KeysInOrder(_)
KeysInOrder(S) ==
    IF S = {} THEN <<>>
    ELSE LET m == CHOOSE x \in S : \A y \in S \ {x} : LexLess(x, y)
         IN <<m>> \o KeysInOrder(S \ {m})

\* numpy's conversion of an integer cell to float32 (24-bit significand,
\* round half to even), for cells below 2^25
F32(x) ==
    IF x <= 16777216 THEN x
    ELSE IF x % 2 = 0 THEN x
    ELSE IF ((x - 1) \div 2) % 2 = 0 THEN x - 1 ELSE x + 1

\* ------------------------------------------------------- the hierarchical store

\* a string attribute as h5py holds it: a fixed-length byte string.  numpy.bytes_(s)
\* has one byte per character of s and h5py stores it with that length
Bytes(s) == [kind |-> "bytes", text |-> s, width |-> Len(s)]

\* numpy.bytes_.decode(); a value that is already text is kept
Decode(v) == v.text

\* a function with one more (or one replaced) key
Put(f, k, v) == [x \in (DOMAIN f) \cup {k} |-> IF x = k THEN v ELSE f[x]]

\* a dataset<n> group none of whose members exists yet
EmptyGroup == [what |-> FALSE, where |-> <<>>, how |-> FALSE, data |-> <<>>]

\* a data<m> group none of whose members exists yet
EmptyData == [data |-> <<>>, what |-> <<>>]

\* the file h5py.File(name, "w") leaves: no group at all
EmptyStore == [what |-> <<>>, where |-> <<>>, how |-> <<>>, groups |-> <<>>]

\* the dataset<n> group of a store, as it is or as create_group makes it
GroupAt(store, n) == IF n \in DOMAIN store.groups THEN store.groups[n] ELSE EmptyGroup

\* the data<m> group of a dataset<n> group
DataAt(g, m) == IF m \in DOMAIN g.data THEN g.data[m] ELSE EmptyData

\* the raw cell of dataset<n>/data<m>/data in the input volumes: one value per place
RawAt(n, m) == 10 * n + m

\* the sequences of pairwise different quantities one elevation may store
QuantitySeqs ==
    {s \in UNION {[1..k -> Quantities] : k \in 0..MaxData} :
        \A i, j \in 1..Len(s) : i # j => s[i] # s[j]}

\* one elevation of an input volume: its angle and the quantities of data1, data2, ..
ElevDescs == [elangle : ElAngles, quantities : QuantitySeqs]

\* the volumes: up to MaxElev elevations
VolumeDescs == UNION {[1..k -> ElevDescs] : k \in 0..MaxElev}

\* dataset<n>/data<m> holding quantity q
DataGroupOf(n, m, q) ==
    [data |-> <<RawAt(n, m)>>,
     what |-> <<[quantity |-> Bytes(q), gain |-> GainOf(q), offset |-> OffsetOf(q)]>>]

\* dataset<n> of an input volume
GroupOf(n, e) ==
    [what |-> TRUE, where |-> <<e.elangle>>, how |-> TRUE,
     data |-> [m \in 1..Len(e.quantities) |-> DataGroupOf(n, m, e.quantities[m])]]

\* the ODIM file of a volume; how is its root how group (absent, or its attributes)
FileOf(how, vol) ==
    [what |-> <<Bytes("PVOL")>>, where |-> <<"site">>, how |-> how,
     groups |-> [n \in 1..Len(vol) |-> GroupOf(n, vol[n])]]

\* the files read_odim is given: every volume, with and without a root how group
InputFiles == {FileOf(h, v) : h \in {<<>>, <<{"task"}>>}, v \in VolumeDescs}

\* ------------------------------------------------------ the in-memory hierarchy

\* the instance attributes setistance assigns from its parameters
FieldNames ==
    {"root_what", "root_where", "root_how", "n_group_dataset", "n_datasets", "datasets",
     "group_datasets_what", "group_datasets_where", "group_datasets_how_radar",
     "group_datasets_how_polar", "group_datasets_data_what"}

\* OdimHierarchyPvol(): an instance without any instance attribute.  has is the
\* set of names in its __dict__; an attribute that is not there holds a filler.
NewPvol ==
    [has |-> {},
     root_what |-> "", root_where |-> "", root_how |-> {},
     n_group_dataset |-> 0, n_datasets |-> 0,
     group_datasets_what |-> <<>>, group_datasets_where |-> <<>>,
     group_datasets_how_radar |-> <<>>, group_datasets_how_polar |-> <<>>,
     datasets |-> <<>>, group_datasets_data_what |-> <<>>,
     elangles |-> <<>>, varsnames |-> <<>>]

\* the result of a step of a method: the object and the error raised ("" for none)
Outcome(obj, err) == [obj |-> obj, err |-> err]

\* setistance with elangles built over range(n_datasets), the wrong counter
setistance_over_n_datasets(obj, a) ==
    LET o1 == [obj EXCEPT
                 !.has = @ \cup FieldNames,
                 !.root_what = a.root_what,
                 !.root_where = a.root_where,
                 !.root_how = a.root_how,
                 !.n_group_dataset = a.n_group_dataset,
                 !.n_datasets = a.n_datasets,
                 !.datasets = a.datasets,
                 !.group_datasets_what = a.group_datasets_what,
                 !.group_datasets_where = a.group_datasets_where,
                 !.group_datasets_how_radar = a.group_datasets_how_radar,
                 !.group_datasets_how_polar = a.group_datasets_how_polar,
                 !.group_datasets_data_what = a.group_datasets_data_what]
        n == a.n_group_dataset
    IN IF Len(o1.datasets) # n THEN [obj |-> o1, err |-> "AssertionError"]
       ELSE IF Len(o1.group_datasets_data_what) # n THEN [obj |-> o1, err |-> "AssertionError"]
       ELSE IF Len(o1.group_datasets_where) < a.n_datasets THEN [obj |-> o1, err |-> "IndexError"]
       ELSE [obj |-> [o1 EXCEPT
                        !.has = @ \cup {"elangles"},
                        !.elangles = [i \in 1..a.n_datasets |->
                                        o1.group_datasets_where[i].elangle]],
             err |-> ""]

\* OdimHierarchyPvol.setistance on obj with the parameters a
setistance(obj, a) ==
    LET o1 == [obj EXCEPT
                 !.has = @ \cup FieldNames,
                 !.root_what = a.root_what,
                 !.root_where = a.root_where,
                 !.root_how = a.root_how,
                 !.n_group_dataset = a.n_group_dataset,
                 !.n_datasets = a.n_datasets,
                 !.datasets = a.datasets,
                 !.group_datasets_what = a.group_datasets_what,
                 !.group_datasets_where = a.group_datasets_where,
                 !.group_datasets_how_radar = a.group_datasets_how_radar,
                 !.group_datasets_how_polar = a.group_datasets_how_polar,
                 !.group_datasets_data_what = a.group_datasets_data_what]
        n == a.n_group_dataset
    IN IF Len(o1.datasets) # n THEN Outcome(o1, "AssertionError")
       ELSE IF Len(o1.group_datasets_data_what) # n THEN Outcome(o1, "AssertionError")
       ELSE IF Len(o1.group_datasets_where) < n THEN Outcome(o1, "IndexError")
       ELSE Outcome([o1 EXCEPT
                       !.has = @ \cup {"elangles"},
                       !.elangles = [i \in 1..n |-> o1.group_datasets_where[i].elangle]],
                    "")

\* ---------------------------------------------------------------- read_odim

\* the first error of a list of errors, "" when there is none
RECURSIVE FirstError(_)
FirstError(errs) ==
    IF errs = <<>> THEN ""
    ELSE IF errs[1] # "" THEN errs[1]
    ELSE FirstError(Tail(errs))

\* the names of the data<m> groups of a dataset<n> group, in enumeration order
DatasetNames(g) == KeysInOrder(DOMAIN g.data)

\* the error reading one data<m> group raises: hr[".../data"] and hr[".../what"]
\* raise KeyError for a member that is not there
DataReadError(d) == IF d.data = <<>> \/ d.what = <<>> THEN "KeyError" ELSE ""

\* the error reading dataset<n> raises: KeyError for a missing what, where or how
\* group or a missing member of a data<m> group, ValueError from numpy.vstack
\* of no array at all
GroupReadError(g) ==
    LET names == DatasetNames(g)
    IN IF ~g.what \/ g.where = <<>> \/ ~g.how THEN "KeyError"
       ELSE IF FirstError([k \in 1..Len(names) |-> DataReadError(g.data[names[k]])]) # ""
         THEN "KeyError"
       ELSE IF names = <<>> THEN "ValueError"
       ELSE ""

\* the quantities of dataset<n>, decoded, in the enumeration order of its data<m>
GroupQuantities(g) ==
    LET names == DatasetNames(g)
    IN [k \in 1..Len(names) |-> Decode(g.data[names[k]].what[1].quantity)]

\* allquantities: every quantity appended when it is not yet in the list
RECURSIVE AppendNew(_, _)
AppendNew(acc, qs) ==
    IF qs = <<>> THEN acc
    ELSE AppendNew(IF InSeq(qs[1], acc) THEN acc ELSE Append(acc, qs[1]), Tail(qs))

\* allquantities after the groups gds[k..] have been read
RECURSIVE AllQuantities(_, _, _)
AllQuantities(acc, gds, k) ==
    IF k > Len(gds) THEN acc
    ELSE AllQuantities(AppendNew(acc, GroupQuantities(gds[k])), gds, k + 1)

\* gd_data_what_list of dataset<n>
GroupDataWhats(n, g) ==
    LET names == DatasetNames(g)
    IN [k \in 1..Len(names) |->
          LET w == g.data[names[k]].what[1]
          IN [hierarchy |-> <<n, names[k]>>, quantity |-> Decode(w.quantity),
              gain |-> w.gain, offset |-> w.offset]]

\* gd_datadset_list of dataset<n>, stacked
GroupDatasets(g) ==
    LET names == DatasetNames(g)
    IN [k \in 1..Len(names) |-> g.data[names[k]].data[1]]

\* nmax_datasets
RECURSIVE MaxLen(_)
MaxLen(lists) ==
    IF lists = <<>> THEN 0 ELSE Max2(Len(lists[1]), MaxLen(Tail(lists)))

\* what read_odim decodes from an open store before it closes it: the error it
\* raises on the way, or the parameters it passes to setistance and allquantities
DecodeStore(store) ==
    LET names == KeysInOrder(DOMAIN store.groups)
        gds == [k \in 1..Len(names) |-> store.groups[names[k]]]
        err == IF store.what = <<>> \/ store.where = <<>> \/ store.how = <<>> THEN "KeyError"
               ELSE FirstError([k \in 1..Len(names) |-> GroupReadError(gds[k])])
        datasets == [k \in 1..Len(names) |-> GroupDatasets(gds[k])]
    IN IF err # "" THEN [err |-> err]
       ELSE [err |-> "",
             allquantities |-> AllQuantities(<<>>, gds, 1),
             args |->
               [root_what |-> Decode(store.what[1]),
                root_where |-> store.where[1],
                root_how |-> store.how[1],
                n_group_dataset |-> Len(names),
                n_datasets |-> MaxLen(datasets),
                group_datasets_what |-> [k \in 1..Len(names) |-> [hierarchy |-> names[k]]],
                group_datasets_where |->
                   [k \in 1..Len(names) |->
                      [hierarchy |-> names[k], elangle |-> gds[k].where[1]]],
                group_datasets_how_radar |-> [k \in 1..Len(names) |-> [hierarchy |-> names[k]]],
                group_datasets_how_polar |-> [k \in 1..Len(names) |-> [hierarchy |-> names[k]]],
                datasets |-> datasets,
                group_datasets_data_what |->
                   [k \in 1..Len(names) |-> GroupDataWhats(names[k], gds[k])]]]

\* read_odim with allquantities kept from one call to the next
read_odim_accumulating(obj, store) ==
    LET d == DecodeStore(store)
    IN IF d.err # "" THEN [obj |-> obj, err |-> d.err, closed |-> FALSE]
       ELSE LET s == setistance(obj, d.args)
            IN IF s.err # "" THEN [obj |-> s.obj, err |-> s.err, closed |-> TRUE]
               ELSE [obj |-> [s.obj EXCEPT !.has = @ \cup {"varsnames"},
                                           !.varsnames = AppendNew(obj.varsnames,
                                                                   d.allquantities)],
                     err |-> "", closed |-> TRUE]

\* OdimHierarchyPvol.read_odim on obj and a store: the object afterwards, the
\* error raised, and whether hr.close() was reached
read_odim(obj, store) ==
    LET d == DecodeStore(store)
    IN IF d.err # "" THEN [obj |-> obj, err |-> d.err, closed |-> FALSE]
       ELSE LET s == setistance(obj, d.args)
            IN IF s.err # "" THEN [obj |-> s.obj, err |-> s.err, closed |-> TRUE]
               ELSE [obj |-> [s.obj EXCEPT !.has = @ \cup {"varsnames"},
                                           !.varsnames = d.allquantities],
                     err |-> "", closed |-> TRUE]

\* --------------------------------------------------------------- export_odim

\* the state of a write in progress: the store so far and the error raised
Writing(store, err) == [store |-> store, err |-> err]

\* the store with dataset<n> replaced by g
WithGroup(store, n, g) == [store EXCEPT !.groups = Put(@, n, g)]

\* OdimGroup.odim_create of "dataset<n>/what": create_group raises ValueError
\* for a group that exists
CreateWhat(w, n) ==
    IF w.err # "" THEN w
    ELSE IF GroupAt(w.store, n).what THEN Writing(w.store, "ValueError")
    ELSE Writing(WithGroup(w.store, n, [GroupAt(w.store, n) EXCEPT !.what = TRUE]), "")

\* odim_create of "dataset<n>/where" and odim_setattrs of its elangle
CreateWhere(w, n, elangle) ==
    IF w.err # "" THEN w
    ELSE IF GroupAt(w.store, n).where # <<>> THEN Writing(w.store, "ValueError")
    ELSE Writing(WithGroup(w.store, n, [GroupAt(w.store, n) EXCEPT !.where = <<elangle>>]), "")

\* odim_create of "dataset<n>/how" (the how_polar group)
CreateHow(w, n) ==
    IF w.err # "" THEN w
    ELSE IF GroupAt(w.store, n).how THEN Writing(w.store, "ValueError")
    ELSE Writing(WithGroup(w.store, n, [GroupAt(w.store, n) EXCEPT !.how = TRUE]), "")

\* OdimGroup.odim_setattrs of "dataset<n>/how" (the how_radar group):
\* require_group makes the group when it is not there
RequireHow(w, n) ==
    IF w.err # "" THEN w
    ELSE Writing(WithGroup(w.store, n, [GroupAt(w.store, n) EXCEPT !.how = TRUE]), "")

\* OdimDset.odim_create of "dataset<n>/data<m>/data": the array as float32
CreateDataset(w, n, m, raw) ==
    LET g == GroupAt(w.store, n)
    IN IF w.err # "" THEN w
       ELSE IF DataAt(g, m).data # <<>> THEN Writing(w.store, "ValueError")
       ELSE Writing(WithGroup(w.store, n,
                       [g EXCEPT !.data = Put(@, m, [DataAt(g, m) EXCEPT !.data = <<F32(raw)>>])]),
                    "")

\* odim_create of the what group at dw.hierarchy and odim_setattrs of its
\* quantity (a string, written as bytes), gain and offset
CreateDataWhat(w, dw) ==
    LET n == dw.hierarchy[1]
        m == dw.hierarchy[2]
        g == GroupAt(w.store, n)
        attrs == [quantity |-> Bytes(dw.quantity), gain |-> dw.gain, offset |-> dw.offset]
    IN IF w.err # "" THEN w
       ELSE IF DataAt(g, m).what # <<>> THEN Writing(w.store, "ValueError")
       ELSE Writing(WithGroup(w.store, n,
                       [g EXCEPT !.data = Put(@, m, [DataAt(g, m) EXCEPT !.what = <<attrs>>])]),
                    "")

\* a list element that is not there raises IndexError
Indexed(w, list, p) ==
    IF w.err = "" /\ p > Len(list) THEN Writing(w.store, "IndexError") ELSE w

\* numpy.arange(1, count, 1) with the end included
LoopWhole(count) == count

\* the last value but one of numpy.arange(1, count, 1): the loops of export_odim
\* run over 1 .. count - 1
LoopLast(count) == count - 1

\* the body of the inner loop of export_odim for num_dset = q and the ones after
RECURSIVE ExportData(_, _, _, _)
ExportData(w, obj, p, q) ==
    IF w.err # "" \/ q > LoopLast(obj.n_datasets) THEN w
    ELSE LET w1 == Indexed(w, obj.datasets, p)
             w2 == IF w1.err # "" \/ q > Len(obj.datasets[p]) THEN w1
                   ELSE LET w3 == CreateDataset(w1, p, q, obj.datasets[p][q])
                            w4 == Indexed(w3, obj.group_datasets_data_what, p)
                        IN IF w4.err # "" \/ q > Len(obj.group_datasets_data_what[p]) THEN w4
                           ELSE CreateDataWhat(w4, obj.group_datasets_data_what[p][q])
         IN ExportData(w2, obj, p, q + 1)

\* the body of the outer loop of export_odim for list position p (num_group = p)
ExportElev(w, obj, p) ==
    LET w1 == Indexed(w, obj.group_datasets_what, p)
        w2 == IF w1.err # "" THEN w1 ELSE CreateWhat(w1, obj.group_datasets_what[p].hierarchy)
        w3 == Indexed(w2, obj.group_datasets_where, p)
        w4 == IF w3.err # "" THEN w3
              ELSE CreateWhere(w3, obj.group_datasets_where[p].hierarchy,
                               obj.group_datasets_where[p].elangle)
        w5 == Indexed(w4, obj.group_datasets_how_polar, p)
        w6 == IF w5.err # "" THEN w5 ELSE CreateHow(w5, obj.group_datasets_how_polar[p].hierarchy)
        w7 == Indexed(w6, obj.group_datasets_how_radar, p)
        w8 == IF w7.err # "" THEN w7
              ELSE RequireHow(w7, obj.group_datasets_how_radar[p].hierarchy)
    IN ExportData(w8, obj, p, 1)

\* the outer loop of export_odim from list position p on
RECURSIVE ExportElevs(_, _, _)
ExportElevs(w, obj, p) ==
    IF w.err # "" \/ p > LoopLast(obj.n_group_dataset) THEN w
    ELSE ExportElevs(ExportElev(w, obj, p), obj, p + 1)

\* OdimHierarchyPvol.export_odim of obj: the store written (the file is truncated
\* when it is opened), the error raised, and whether hf.close() was reached
export_odim(obj) ==
    IF "root_what" \notin obj.has
      THEN [store |-> EmptyStore, err |-> "AttributeError", closed |-> FALSE]
    ELSE LET root == [EmptyStore EXCEPT !.what = <<Bytes(obj.root_what)>>,
                                        !.where = <<obj.root_where>>,
                                        !.how = <<obj.root_how>>]
             w == ExportElevs(Writing(root, ""), obj, 1)
         IN [store |-> w.store, err |-> w.err, closed |-> (w.err = "")]

\* ------------------------------------------------------------------ lookups

\* the per-elevation lists get_group_by_elangle is documented for
GroupListNames ==
    {"group_datasets_what", "group_datasets_where", "group_datasets_how_radar",
     "group_datasets_how_polar", "group_datasets_data_what"}

\* the lists a caller asks get_group_by_elangle for
LookupGroups == {"group_datasets_where", "group_datasets_data_what"}

\* self.__dict__[namegroup]
GroupList(obj, namegroup) ==
    CASE namegroup = "group_datasets_what" -> obj.group_datasets_what
      [] namegroup = "group_datasets_where" -> obj.group_datasets_where
      [] namegroup = "group_datasets_how_radar" -> obj.group_datasets_how_radar
      [] namegroup = "group_datasets_how_polar" -> obj.group_datasets_how_polar
      [] namegroup = "group_datasets_data_what" -> obj.group_datasets_data_what

\* OdimHierarchyPvol.get_group_by_elangle: the error raised, or the group
get_group_by_elangle(obj, elangle, namegroup) ==
    IF namegroup \notin obj.has THEN [err |-> "KeyError"]
    ELSE IF "elangles" \notin obj.has THEN [err |-> "AttributeError"]
    ELSE IF IndexOf(elangle, obj.elangles) = 0 THEN [err |-> "ValueError"]
    ELSE IF IndexOf(elangle, obj.elangles) > Len(GroupList(obj, namegroup))
      THEN [err |-> "IndexError"]
    ELSE [err |-> "", group |-> GroupList(obj, namegroup)[IndexOf(elangle, obj.elangles)]]

\* varsnames_elangle: the candidate names of get_data_by_elangle
CandidateNames(obj, elangle) ==
    IF elangle = MaxOfSeq(obj.elangles) /\ InSeq("Z_VD", obj.varsnames)
      THEN RemoveFirst("Z_VD", obj.varsnames)
    ELSE obj.varsnames

\* OdimHierarchyPvol.get_data_by_elangle: the error raised, or raw * gain + offset
get_data_by_elangle(obj, elangle, quantity) ==
    IF "varsnames" \notin obj.has \/ "elangles" \notin obj.has THEN [err |-> "AttributeError"]
    ELSE IF obj.elangles = <<>> THEN [err |-> "ValueError"]
    ELSE LET indexq == IndexOf(quantity, CandidateNames(obj, elangle))
             e == IndexOf(elangle, obj.elangles)
         IN IF indexq = 0 \/ e = 0 THEN [err |-> "ValueError"]
            ELSE IF e > Len(obj.datasets) \/ indexq > Len(obj.datasets[e])
              THEN [err |-> "IndexError"]
            ELSE IF e > Len(obj.group_datasets_data_what)
                      \/ indexq > Len(obj.group_datasets_data_what[e])
              THEN [err |-> "IndexError"]
            ELSE [err |-> "",
                  data |-> obj.datasets[e][indexq]
                             * obj.group_datasets_data_what[e][indexq].gain
                           + obj.group_datasets_data_what[e][indexq].offset]

\* ------------------------------------------------- the caller's constructions

\* the volumes a caller assembles by hand, and the ones other programs leave on
\* disk for the construction path: none, one or two elevations, the Z_VD of the
\* top elevation missing or not
UserVolumes ==
    {<<>>,
     <<[elangle |-> 5, quantities |-> <<"DBZH", "Z_VD">>]>>,
     <<[elangle |-> 5, quantities |-> <<"DBZH", "Z_VD">>],
       [elangle |-> 14, quantities |-> <<"DBZH">>]>>,
     <<[elangle |-> 14, quantities |-> <<"Z_VD">>],
       [elangle |-> 5, quantities |-> <<"Z_VD", "DBZH">>]>>}

\* the parameters of a setistance call for the volume vol, declared with n
\* elevations and given the first nwhere where groups
UserArgs(vol, n, nwhere) ==
    LET datasets == [k \in 1..Len(vol) |->
                       [m \in 1..Len(vol[k].quantities) |-> 100 + RawAt(k, m)]]
    IN [root_what |-> "SCAN", root_where |-> "user", root_how |-> {},
        n_group_dataset |-> n,
        n_datasets |-> MaxLen(datasets),
        group_datasets_what |-> [k \in 1..Len(vol) |-> [hierarchy |-> k]],
        group_datasets_where |->
           [k \in 1..nwhere |-> [hierarchy |-> k, elangle |-> vol[k].elangle]],
        group_datasets_how_radar |-> [k \in 1..Len(vol) |-> [hierarchy |-> k]],
        group_datasets_how_polar |-> [k \in 1..Len(vol) |-> [hierarchy |-> k]],
        datasets |-> datasets,
        group_datasets_data_what |->
           [k \in 1..Len(vol) |->
              [m \in 1..Len(vol[k].quantities) |->
                 [hierarchy |-> <<k, m>>, quantity |-> vol[k].quantities[m],
                  gain |-> GainOf(vol[k].quantities[m]),
                  offset |-> OffsetOf(vol[k].quantities[m])]]]]

\* the numbers of elevations a caller declares for vol: right, or one too many
DeclaredCounts(vol) == {Len(vol), Len(vol) + 1}

\* the lengths of the where list a caller passes for vol: whole, or one short
WhereCounts(vol) == {k \in {Len(vol) - 1, Len(vol)} : k >= 0}

\* the setistance calls of the model
SetArgs ==
    UNION {{UserArgs(vol, n, nwhere) : n \in DeclaredCounts(vol), nwhere \in WhereCounts(vol)} :
             vol \in UserVolumes}

\* ------------------------------------------------------------ the state machine

VARIABLES
    self,     \* the OdimHierarchyPvol instance
    disk,     \* the content of the ODIM file the last read or export call named
    handle,   \* the store handle of the last read_odim or export_odim call
    result    \* the last call: its name, its arguments, the error raised, its value

vars == <<self, disk, handle, result>>

\* the record of a call: the attributes the instance had when it was made, the
\* arguments, the error raised ("" for none) and the returned value, if any
Call(op, had, elangle, name, err, value) ==
    [op |-> op, had |-> had, elangle |-> elangle, name |-> name, err |-> err, value |-> value]

Init ==
    /\ self = NewPvol
    /\ disk \in InputFiles
    /\ handle = "none"
    /\ result = Call("none", {}, 0, "", "", <<>>)

\* hierarchy.read_odim(filename), the file of that name holding store
ReadFile(store) ==
    LET r == read_odim(self, store)
    IN /\ self' = r.obj
       /\ disk' = store
       /\ handle' = IF r.closed THEN "closed" ELSE "open"
       /\ result' = Call("read_odim", self.has, 0, "", r.err, <<>>)

\* read_odim of the file the last call named
ReadOdim == ReadFile(disk)

\* hierarchy.export_odim(filename)
ExportOdim ==
    LET r == export_odim(self)
    IN /\ disk' = r.store
       /\ handle' = IF r.closed THEN "closed" ELSE "open"
       /\ result' = Call("export_odim", self.has, 0, "", r.err, <<>>)
       /\ UNCHANGED self

\* hierarchy.setistance(...)
SetIstance ==
    \E a \in SetArgs :
        LET r == setistance(self, a)
        IN /\ self' = r.obj
           /\ result' = Call("setistance", self.has, 0, "", r.err, <<>>)
           /\ UNCHANGED <<disk, handle>>

\* hierarchy.get_group_by_elangle(elangle, namegroup)
GetGroupByElangle ==
    \E elangle \in LookupAngles, namegroup \in LookupGroups :
        LET r == get_group_by_elangle(self, elangle, namegroup)
        IN /\ result' = Call("get_group_by_elangle", self.has, elangle, namegroup, r.err,
                             IF r.err = "" THEN <<r.group>> ELSE <<>>)
           /\ UNCHANGED <<self, disk, handle>>

\* hierarchy.get_data_by_elangle(elangle, quantity)
GetDataByElangle ==
    \E elangle \in LookupAngles, quantity \in LookupQuantities :
        LET r == get_data_by_elangle(self, elangle, quantity)
        IN /\ result' = Call("get_data_by_elangle", self.has, elangle, quantity, r.err,
                             IF r.err = "" THEN <<r.data>> ELSE <<>>)
           /\ UNCHANGED <<self, disk, handle>>

\* the discovery path: a file is read, looked up and written again
Next ==
    \/ ReadOdim
    \/ ExportOdim
    \/ GetGroupByElangle
    \/ GetDataByElangle

Spec == Init /\ [][Next]_vars

\* the files of the construction path: the hand-made volumes, written out whole,
\* and one file without a root how group
UserFiles ==
    {FileOf(<<{"task"}>>, vol) : vol \in UserVolumes}
      \cup {FileOf(<<>>, <<[elangle |-> 5, quantities |-> <<"DBZH">>]>>)}

\* no call has named a file yet
InitBuild ==
    /\ self = NewPvol
    /\ disk = EmptyStore
    /\ handle = "none"
    /\ result = Call("none", {}, 0, "", "", <<>>)

\* read_odim of any of the files of the construction path
ReadUserFile == \E store \in UserFiles : ReadFile(store)

\* the construction path: a hierarchy is assembled by setistance, or read, and looked up
NextBuild ==
    \/ SetIstance
    \/ ReadUserFile
    \/ GetGroupByElangle
    \/ GetDataByElangle

SpecBuild == InitBuild /\ [][NextBuild]_vars

\* ---------------------------------------------------------------- properties

\* the last call was op and raised nothing
Returned(op) == result.op = op /\ result.err = ""

\* the instance holds the attributes a successful setistance leaves
Populated(obj) == FieldNames \cup {"elangles"} \subseteq obj.has

\* the elevation angles of obj are pairwise different
DistinctAngles(obj) ==
    \A i, j \in 1..Len(obj.elangles) : i # j => obj.elangles[i] # obj.elangles[j]

\* raw * gain + offset of the data group at list position j of elevation i
Decoded(obj, i, j) ==
    obj.datasets[i][j] * obj.group_datasets_data_what[i][j].gain
      + obj.group_datasets_data_what[i][j].offset

\* the positions at which elevation i stores quantity q
PositionsOf(obj, i, q) ==
    {j \in 1..Len(obj.group_datasets_data_what[i]) :
        obj.group_datasets_data_what[i][j].quantity = q}

\* C1: a hierarchy that has been exported reads back, from the file written,
\* with the same elangles, the same varsnames and, for every stored (elevation,
\* quantity), the same quantity name and decoded data at the same list position.
C1_RoundTrip ==
    (Returned("export_odim") /\ "varsnames" \in self.has) =>
        LET r == read_odim(NewPvol, disk)
        IN /\ r.err = ""
           /\ r.obj.elangles = self.elangles
           /\ r.obj.varsnames = self.varsnames
           /\ \A i \in 1..Len(self.datasets) : \A j \in 1..Len(self.datasets[i]) :
                 /\ i <= Len(r.obj.datasets)
                 /\ j <= Len(r.obj.datasets[i])
                 /\ r.obj.group_datasets_data_what[i][j].quantity
                      = self.group_datasets_data_what[i][j].quantity
                 /\ Decoded(r.obj, i, j) = Decoded(self, i, j)

\* C2: on a hierarchy with pairwise different angles, a value returned by
\* get_data_by_elangle(a, q) is raw * gain + offset of a data group of the
\* elevation with angle a whose quantity is q.
C2_LookupReturnsTheQuantity ==
    (Returned("get_data_by_elangle") /\ DistinctAngles(self)) =>
        \E j \in PositionsOf(self, IndexOf(result.elangle, self.elangles), result.name) :
            result.value = <<Decoded(self, IndexOf(result.elangle, self.elangles), j)>>

\* "Z_VD" is stored at every elevation of obj but the one with the largest angle
ZvdMissingAtTopOnly(obj) ==
    /\ Populated(obj)
    /\ "varsnames" \in obj.has
    /\ obj.elangles # <<>>
    /\ DistinctAngles(obj)
    /\ Len(obj.group_datasets_data_what) = Len(obj.elangles)
    /\ \A i \in 1..Len(obj.elangles) :
          (PositionsOf(obj, i, "Z_VD") = {}) <=> (obj.elangles[i] = MaxOfSeq(obj.elangles))

\* C3: when "Z_VD" is stored at every elevation but the one with the largest
\* angle, get_data_by_elangle(largest, "Z_VD") raises the not-found error and
\* get_data_by_elangle(a, "Z_VD") for any other angle a of the volume returns
\* the decoded Z_VD data of that elevation.
C3_ZvdIrregularity ==
    (/\ result.op = "get_data_by_elangle"
     /\ result.name = "Z_VD"
     /\ ZvdMissingAtTopOnly(self)
     /\ InSeq(result.elangle, self.elangles)) =>
        IF result.elangle = MaxOfSeq(self.elangles)
          THEN result.err = "ValueError"
        ELSE /\ result.err = ""
             /\ \E j \in PositionsOf(self, IndexOf(result.elangle, self.elangles), "Z_VD") :
                   result.value = <<Decoded(self, IndexOf(result.elangle, self.elangles), j)>>

\* the names of the two lookups
LookupOps == {"get_group_by_elangle", "get_data_by_elangle"}

\* C4: every lookup, on a populated hierarchy, of an angle that is no member of
\* elangles raises the not-found error (ValueError) and leaves the hierarchy as
\* it was.
C4_ExactMatchLookup ==
    [][(/\ result'.op \in LookupOps
        /\ Populated(self)
        /\ ~InSeq(result'.elangle, self.elangles)) =>
            (result'.err = "ValueError" /\ self' = self)]_vars

\* C6: a populated hierarchy has as many datasets, as many
\* group_datasets_data_what and as many elangles as n_group_dataset says, also
\* after a call that raised.
C6_ListLengthsAgree ==
    Populated(self) =>
        /\ Len(self.datasets) = self.n_group_dataset
        /\ Len(self.group_datasets_data_what) = self.n_group_dataset
        /\ Len(self.elangles) = self.n_group_dataset

\* the quantity names of the data what groups of obj, each once, in list order
RECURSIVE QuantityUnion(_, _, _)
QuantityUnion(acc, obj, i) ==
    IF i > Len(obj.group_datasets_data_what) THEN acc
    ELSE QuantityUnion(
           AppendNew(acc, [j \in 1..Len(obj.group_datasets_data_what[i]) |->
                             obj.group_datasets_data_what[i][j].quantity]),
           obj, i + 1)

\* C7: after every successful setistance or read_odim, varsnames is an attribute
\* of the instance and is the duplicate-free union, in discovery order, of the
\* quantity names of the current group_datasets_data_what.
C7_VarsnamesConsistent ==
    (Returned("setistance") \/ Returned("read_odim")) =>
        /\ "varsnames" \in self.has
        /\ self.varsnames = QuantityUnion(<<>>, self, 1)

\* C8: no read_odim or export_odim call returns, normally or by raising, with
\* the store handle it opened still open.
C8_HandleClosedOnEveryExit == handle # "open"

\* C9: read_odim of a file that lacks the root how group, and nothing else,
\* succeeds, populates the hierarchy and leaves every field of root_how unset.
C9_RootHowOptional ==
    (/\ result.op = "read_odim"
     /\ disk.how = <<>>
     /\ DecodeStore([disk EXCEPT !.how = <<{}>>]).err = "") =>
        /\ result.err = ""
        /\ Populated(self)
        /\ self.root_how = {}

\* C5: after every successful read_odim the length of elangles is n_group_dataset,
\* which is the number of dataset<n> groups of the file, and elangles[i] is the
\* elangle of group_datasets_where[i], the where group of the i-th dataset<n>
\* group in the store's enumeration order (names compared as strings), whatever
\* the angles are.
C5_ElanglesFollowDiscoveryOrder ==
    Returned("read_odim") =>
        /\ Len(self.elangles) = self.n_group_dataset
        /\ self.n_group_dataset = Cardinality(DOMAIN disk.groups)
        /\ Len(self.group_datasets_where) = self.n_group_dataset
        /\ \A i \in 1..Len(self.elangles) :
              /\ self.elangles[i] = self.group_datasets_where[i].elangle
              /\ self.group_datasets_where[i].hierarchy \in DOMAIN disk.groups
              /\ self.elangles[i] = disk.groups[self.group_datasets_where[i].hierarchy].where[1]
        /\ \A i, j \in 1..Len(self.elangles) :
              i < j => LexLess(self.group_datasets_where[i].hierarchy,
                               self.group_datasets_where[j].hierarchy)

\* a file of two elevations whose angles decrease in enumeration order has been read
C5_Witness ==
    /\ Returned("read_odim")
    /\ Len(self.elangles) = 2
    /\ self.elangles[1] > self.elangles[2]

\* C10: after a successful read_odim the hierarchy is the one a new instance
\* holds after reading the same file: no attribute keeps anything of the state
\* the instance was in before the call.
C10_ReadReplacesEverything ==
    Returned("read_odim") => self = read_odim(NewPvol, disk).obj

\* a file has been read into an instance that setistance had populated before
\* (it had the eleven fields and elangles, and no varsnames)
C10_Witness ==
    /\ Returned("read_odim")
    /\ result.had = FieldNames \cup {"elangles"}
    /\ self.varsnames # <<>>

\* ------------------------------------------- attributes: odim_setattrs, formatstr

\* longest list of attribute names a caller passes to odim_setattrs
MaxNames == 2

\* an attribute that is unset
None == [kind |-> "none"]

\* a text value and a numeric value of an attribute
Str(s) == [kind |-> "str", text |-> s]
Num(x) == [kind |-> "num", val |-> x]

\* the texts that occur as attribute values
Texts == {"A", "PV"}

\* formatstr(mystring): numpy.array(mystring.encode("latin-1"), "S<len + 1>")
formatstr(mystring) == [kind |-> "bytes", text |-> mystring, width |-> Len(mystring) + 1]

\* OdimGroup(hierarchy): the instance __dict__ holds hierarchy only
OdimGroup(hierarchy) == [cls |-> "OdimGroup", dict |-> [n \in {"hierarchy"} |-> Str(hierarchy)]]

\* a numpy array: its number of dimensions and its element type
Array(rank, dtype) == [kind |-> "array", rank |-> rank, dtype |-> dtype]

\* OdimDset8bImage(data, hierarchy) with the default CLASS and IMAGE_VERSION
OdimDset8bImage(data, hierarchy) ==
    [cls |-> "OdimDset8bImage",
     dict |-> [n \in {"data", "hierarchy", "CLASS", "IMAGE_VERSION"} |->
                 CASE n = "data" -> data
                   [] n = "hierarchy" -> Str(hierarchy)
                   [] n = "CLASS" -> Str("IMAGE")
                   [] n = "IMAGE_VERSION" -> Str("1.2")]]

\* StructBase.addparams(newparam, value) with a single name
addparams(obj, newparam, value) == [obj EXCEPT !.dict = Put(@, newparam, value)]

\* StructBase.struct_hasitem and struct_getitem
struct_hasitem(obj, param) == param \in DOMAIN obj.dict
struct_getitem(obj, param) == IF param \in DOMAIN obj.dict THEN obj.dict[param] ELSE None

\* self.hierarchy
Hierarchy(obj) == obj.dict["hierarchy"].text

\* g.attrs of the node at path p; require_group and require_dataset make a node
\* that is not there, without attributes
AttrsAt(store, p) == IF p \in DOMAIN store THEN store[p] ELSE <<>>

\* the value g.attrs.__setitem__ stores: a str goes through numpy.bytes_
StoredValue(v) == IF v.kind = "str" THEN Bytes(v.text) ELSE v

\* the loop of odim_setattrs over attrslist[k..], attrs being g.attrs
RECURSIVE SetAttrsLoop(_, _, _, _)
SetAttrsLoop(attrs, obj, attrslist, k) ==
    IF k > Len(attrslist) THEN attrs
    ELSE LET attr == attrslist[k]
             attrs1 == IF struct_hasitem(obj, attr) /\ struct_getitem(obj, attr) # None
                         THEN Put(attrs, attr, StoredValue(struct_getitem(obj, attr)))
                       ELSE attrs
         IN SetAttrsLoop(attrs1, obj, attrslist, k + 1)

\* odim_setattrs that stores every attribute of attrslist the object has, unset or not
odim_setattrs_unset_too(obj, store, attrslist) ==
    Put(store, Hierarchy(obj),
        [n \in DOMAIN AttrsAt(store, Hierarchy(obj))
                 \cup {attrslist[k] : k \in {j \in 1..Len(attrslist) :
                                               struct_hasitem(obj, attrslist[j])}} |->
           IF \E k \in 1..Len(attrslist) : attrslist[k] = n /\ struct_hasitem(obj, n)
             THEN StoredValue(struct_getitem(obj, n))
           ELSE AttrsAt(store, Hierarchy(obj))[n]])

\* OdimGroup.odim_setattrs and OdimDset8bImage.odim_setattrs (the two bodies
\* differ in require_group / require_dataset only): the store afterwards
odim_setattrs(obj, store, attrslist) ==
    Put(store, Hierarchy(obj), SetAttrsLoop(AttrsAt(store, Hierarchy(obj)), obj, attrslist, 1))

\* the paths of the groups and of the image dataset the objects stand for
GroupPaths == {"what", "how"}
DsetPath == "dataset1/data1/data"

\* the attribute names callers list, and the values addparams gives them
ListedNames == {"object", "gain", "CLASS"}
NameLists == UNION {[1..k -> ListedNames] : k \in 0..MaxNames}
ParamValues(name) ==
    IF name = "object" THEN {None} \cup {Str(t) : t \in Texts} ELSE {None, Num(1)}

\* the record of a call on a group or dataset object
AttrCall(op, names, value) == [op |-> op, names |-> names, value |-> value]

\* a group object for the root what group and a file just opened for writing
InitAttrs ==
    /\ self = OdimGroup("what")
    /\ disk = <<>>
    /\ handle = "open"
    /\ result = AttrCall("none", <<>>, None)

\* istanza = OdimGroup(hierarchy=...)
NewOdimGroup ==
    \E h \in GroupPaths :
        /\ self' = OdimGroup(h)
        /\ result' = AttrCall("OdimGroup", <<>>, None)
        /\ UNCHANGED <<disk, handle>>

\* istanza = OdimDset8bImage(data, hierarchy=...)
NewOdimDset8bImage ==
    /\ self' = OdimDset8bImage(Array(2, "uint8"), DsetPath)
    /\ result' = AttrCall("OdimDset8bImage", <<>>, None)
    /\ UNCHANGED <<disk, handle>>

\* istanza.addparams(name, value) on a group object
Addparams ==
    \E name \in {"object", "gain"} : \E value \in ParamValues(name) :
        /\ self.cls = "OdimGroup"
        /\ self' = addparams(self, name, value)
        /\ result' = AttrCall("addparams", <<>>, None)
        /\ UNCHANGED <<disk, handle>>

\* istanza.odim_setattrs(hf, attrslist)
OdimSetattrs ==
    \E attrslist \in NameLists :
        /\ disk' = odim_setattrs(self, disk, attrslist)
        /\ result' = AttrCall("odim_setattrs", attrslist, None)
        /\ UNCHANGED <<self, handle>>

\* formatstr(text)
Formatstr ==
    \E text \in Texts :
        /\ result' = AttrCall("formatstr", <<>>, formatstr(text))
        /\ UNCHANGED <<self, disk, handle>>

NextAttrs ==
    \/ NewOdimGroup
    \/ NewOdimDset8bImage
    \/ Addparams
    \/ OdimSetattrs
    \/ Formatstr

SpecAttrs == InitAttrs /\ [][NextAttrs]_vars

\* every byte string of the attribute dictionaries of the store
StoredStrings(store) ==
    {store[p][n] : <<p, n>> \in {pn \in (DOMAIN store) \X (ListedNames \cup {"IMAGE_VERSION"}) :
                                   /\ pn[2] \in DOMAIN store[pn[1]]
                                   /\ store[pn[1]][pn[2]].kind = "bytes"}}

\* C11: every string attribute in the store, written by odim_setattrs of a group
\* or of an image dataset, and every value formatstr returns, is a byte string
\* of length len(content) + 1.
C11_StringWidth ==
    /\ \A v \in StoredStrings(disk) : v.width = Len(v.text) + 1
    /\ result.op = "formatstr" => result.value.width = Len(result.value.text) + 1

\* the names of attrslist that obj has with a value that is not unset
SetNames(obj, attrslist) ==
    {n \in {attrslist[k] : k \in 1..Len(attrslist)} :
        n \in DOMAIN obj.dict /\ obj.dict[n] # None}

\* C12: odim_setattrs(store, names) of a group object with hierarchy p leaves at p
\* the previous attributes overridden with the pairs (n, value), a text as its
\* byte string, for exactly the n of names the object has with a value that is
\* not unset; it raises nothing, and it changes no other path and not the object.
C12_SetattrsEffect ==
    [][(result'.op = "odim_setattrs" /\ self.cls = "OdimGroup") =>
          LET p == Hierarchy(self)
              old == AttrsAt(disk, p)
              set == SetNames(self, result'.names)
          IN /\ DOMAIN disk' = (DOMAIN disk) \cup {p}
             /\ DOMAIN disk'[p] = (DOMAIN old) \cup set
             /\ \A n \in set :
                   IF self.dict[n].kind = "str"
                     THEN disk'[p][n].kind = "bytes" /\ disk'[p][n].text = self.dict[n].text
                   ELSE disk'[p][n] = self.dict[n]
             /\ \A n \in (DOMAIN old) \ set : disk'[p][n] = old[n]
             /\ \A q \in (DOMAIN disk) \ {p} : disk'[q] = disk[q]
             /\ self' = self]_vars

\* a group object holding a text, an unset value and no CLASS has written, to a
\* path that held attributes and next to another path, the text and nothing else
C12_Witness ==
    /\ result.op = "odim_setattrs"
    /\ self.cls = "OdimGroup"
    /\ result.names = <<"object", "gain">>
    /\ "gain" \in DOMAIN self.dict /\ self.dict["gain"] = None
    /\ "object" \in DOMAIN self.dict /\ self.dict["object"] = Str("PV")
    /\ Hierarchy(self) \in DOMAIN disk
    /\ DOMAIN disk[Hierarchy(self)] = {"object"}
    /\ disk[Hierarchy(self)]["object"] = Bytes("PV")
    /\ \E q \in DOMAIN disk : q # Hierarchy(self) /\ "gain" \in DOMAIN disk[q]

\* ------------------------------------------- the image hierarchy (odim_image.py)

\* the attribute lists of OdimHierarchyImage.export_odim and read_odim
WhatNames == <<"object", "version", "date", "time", "source">>
ExportWhereNames ==
    <<"projdef", "xsize", "ysize", "xscale", "LL_lon", "LL_lat", "UL_lon", "UL_lat",
      "UR_lon", "UR_lat", "LR_lon", "LR_lat">>
ReadWhereNames ==
    <<"projdef", "xsize", "ysize", "xscale", "yscale", "LL_lon", "LL_lat", "UL_lon", "UL_lat",
      "UR_lon", "UR_lat", "LR_lon", "LR_lat">>
ExportHowNames == <<"task", "startepochs", "system", "software", "sw_version", "endepochs">>
ReadHowNames ==
    <<"task", "startepochs", "endepochs", "system", "software", "sw_version", "simulated">>
DsetWhatNames == <<"product", "startdate", "starttime", "enddate", "endtime">>
DsetNames == <<"CLASS", "IMAGE_VERSION">>
DataWhatNames == <<"quantity", "gain", "nodata", "offset", "undetect">>

\* the elements of a list
Elems(list) == {list[k] : k \in 1..Len(list)}

\* an instance of a group class: hierarchy and the attributes of its constructor
GroupObject(cls, hierarchy, values) ==
    [cls |-> cls,
     dict |-> [n \in {"hierarchy"} \cup DOMAIN values |->
                 IF n = "hierarchy" THEN Str(hierarchy) ELSE values[n]]]

\* the constructors of odim_utils with every optional parameter at its default
OdimWhat(hierarchy, obj, version, date, time, source) ==
    GroupObject("OdimWhat", hierarchy,
                [n \in Elems(WhatNames) |->
                   CASE n = "object" -> obj [] n = "version" -> version [] n = "date" -> date
                     [] n = "time" -> time [] n = "source" -> source])
OdimWhereGeoimage(hierarchy) ==
    GroupObject("OdimWhereGeoimage", hierarchy, [n \in Elems(ReadWhereNames) |-> None])
OdimHow(hierarchy) ==
    GroupObject("OdimHow", hierarchy,
                [n \in Elems(ReadHowNames) \cup {"zr_a", "zr_b", "kr_a", "kr_b"} |-> None])
OdimWhatDset(hierarchy) ==
    GroupObject("OdimWhatDset", hierarchy,
                [n \in Elems(DsetWhatNames) \cup Elems(DataWhatNames) \cup {"prodpar"} |->
                   IF n = "gain" THEN Num(1) ELSE IF n = "offset" THEN Num(0) ELSE None])

\* the instance attributes OdimHierarchyImage.setistance assigns
ImageFields ==
    {"root_what", "root_where", "root_how", "dataset", "group_data_what", "group_dataset_what"}

\* OdimHierarchyImage(): no instance attribute; one that is not there holds a filler
NewImage ==
    [has |-> {}, root_what |-> None, root_where |-> None, root_how |-> None,
     dataset |-> None, group_data_what |-> None, group_dataset_what |-> None]

\* OdimHierarchyImage.setistance: the six assignments, then the assertion
image_setistance(obj, a) ==
    LET o1 == [obj EXCEPT !.has = @ \cup ImageFields,
                          !.root_what = a.root_what, !.root_where = a.root_where,
                          !.root_how = a.root_how, !.dataset = a.dataset,
                          !.group_data_what = a.group_data_what,
                          !.group_dataset_what = a.group_dataset_what]
    IN IF o1.dataset.dict["data"].rank # 2 THEN Outcome(o1, "AssertionError")
       ELSE Outcome(o1, "")

\* OdimHierarchyImage.get_attrs_from_odimgroup: every attribute of attrs_list that
\* hgroup has is set on out_cont as h5py returns it
RECURSIVE image_get_attrs_from_odimgroup(_, _, _, _)
image_get_attrs_from_odimgroup(attrs_list, hattrs, out_cont, k) ==
    IF k > Len(attrs_list) THEN out_cont
    ELSE image_get_attrs_from_odimgroup(
           attrs_list, hattrs,
           IF attrs_list[k] \in DOMAIN hattrs
             THEN addparams(out_cont, attrs_list[k], hattrs[attrs_list[k]])
           ELSE out_cont,
           k + 1)

\* an image file: the attributes of its groups and of its dataset, by path, and
\* the array of dataset1/data1/data (absent, or one array)
EmptyImageStore == [attrs |-> <<>>, data |-> <<>>]

\* hr[path] of a group and hr["what"].attrs[name] raise KeyError for what is not there
MissingIn(store, path, names) ==
    path \notin DOMAIN store.attrs \/ \E n \in names : n \notin DOMAIN store.attrs[path]

\* what OdimHierarchyImage.read_odim decodes before hr.close(): the error raised
\* on the way, or the parameters it passes to setistance
ImageDecodeStore(store) ==
    IF MissingIn(store, "what", Elems(WhatNames)) THEN [err |-> "KeyError"]
    ELSE IF MissingIn(store, "where", {}) THEN [err |-> "KeyError"]
    ELSE IF MissingIn(store, "dataset1/what", {}) THEN [err |-> "KeyError"]
    ELSE IF MissingIn(store, "dataset1/data1/what", {}) THEN [err |-> "KeyError"]
    ELSE IF store.data = <<>> THEN [err |-> "KeyError"]
    ELSE LET w == store.attrs["what"]
         IN [err |-> "",
             args |->
               [root_what |-> OdimWhat("what", w["object"], w["version"], w["date"],
                                       w["time"], w["source"]),
                root_where |-> image_get_attrs_from_odimgroup(
                                  ReadWhereNames, store.attrs["where"],
                                  OdimWhereGeoimage("where"), 1),
                root_how |-> IF "how" \in DOMAIN store.attrs
                               THEN image_get_attrs_from_odimgroup(
                                      ReadHowNames, store.attrs["how"], OdimHow("how"), 1)
                             ELSE OdimHow("how"),
                group_dataset_what |-> image_get_attrs_from_odimgroup(
                                          DsetWhatNames, store.attrs["dataset1/what"],
                                          OdimWhatDset("dataset1/what"), 1),
                group_data_what |-> image_get_attrs_from_odimgroup(
                                       DataWhatNames, store.attrs["dataset1/data1/what"],
                                       OdimWhatDset("dataset1/data1/what"), 1),
                dataset |-> image_get_attrs_from_odimgroup(
                               DsetNames, store.attrs[DsetPath],
                               OdimDset8bImage(store.data[1], DsetPath), 1)]]

\* OdimHierarchyImage.read_odim: the object afterwards, the error raised and
\* whether hr.close() was reached
image_read_odim(obj, store) ==
    LET d == ImageDecodeStore(store)
    IN IF d.err # "" THEN [obj |-> obj, err |-> d.err, closed |-> FALSE]
       ELSE LET r == image_setistance(obj, d.args)
            IN [obj |-> r.obj, err |-> r.err, closed |-> TRUE]

\* group.odim_create(hf) and group.odim_setattrs(hf, names) of export_odim:
\* create_group raises ValueError for a path that exists
WriteGroup(w, g, names) ==
    IF w.err # "" THEN w
    ELSE IF Hierarchy(g) \in DOMAIN w.store.attrs THEN Writing(w.store, "ValueError")
    ELSE Writing([w.store EXCEPT
                    !.attrs = odim_setattrs(g, Put(@, Hierarchy(g), <<>>), names)], "")

\* numpy.can_cast(dtype, float32), the test of require_dataset on the dataset
\* that OdimDset.odim_create made as float32
CanCastToFloat32(dtype) == dtype \in {"uint8", "float32"}

\* dset.odim_create(hf) and dset.odim_setattrs(hf, names) of export_odim
WriteDset(w, dset, names) ==
    IF w.err # "" THEN w
    ELSE IF Hierarchy(dset) \in DOMAIN w.store.attrs THEN Writing(w.store, "ValueError")
    ELSE LET made == [attrs |-> Put(w.store.attrs, Hierarchy(dset), <<>>),
                      data |-> <<Array(dset.dict["data"].rank, "float32")>>]
         IN IF ~CanCastToFloat32(dset.dict["data"].dtype) THEN Writing(made, "TypeError")
            ELSE Writing([made EXCEPT !.attrs = odim_setattrs(dset, @, names)], "")

\* OdimHierarchyImage.export_odim: the store written (the file is truncated when
\* it is opened), the error raised and whether hf.close() was reached
image_export_odim(obj) ==
    IF "root_what" \notin obj.has
      THEN [store |-> EmptyImageStore, err |-> "AttributeError", closed |-> FALSE]
    ELSE LET w1 == WriteGroup(Writing(EmptyImageStore, ""), obj.root_what, WhatNames)
             w2 == WriteGroup(w1, obj.root_where, ExportWhereNames)
             w3 == WriteGroup(w2, obj.root_how, ExportHowNames)
             w4 == WriteGroup(w3, obj.group_dataset_what, DsetWhatNames)
             w5 == WriteDset(w4, OdimDset8bImage(obj.dataset.dict["data"], DsetPath), DsetNames)
             w6 == WriteGroup(w5, obj.group_data_what, DataWhatNames)
         IN [store |-> w6.store, err |-> w6.err, closed |-> (w6.err = "")]

\* the where group of the images a caller builds: every attribute set but, at
\* the caller's choice, yscale
UserWhere(yscale) ==
    GroupObject("OdimWhereGeoimage", "where",
                [n \in Elems(ReadWhereNames) |->
                   CASE n = "projdef" -> Str("+proj=utm")
                     [] n = "yscale" -> yscale
                     [] n \in {"xsize", "ysize"} -> Num(256)
                     [] n = "xscale" -> Num(1000)
                     [] OTHER -> Num(IndexOf(n, ReadWhereNames))])

\* the images a caller builds: with or without a source and a yscale, the array
\* of rank 2 or 3 and of 8-bit or float64 elements
ImageArgs ==
    {[root_what |-> OdimWhat("what", Str("IMAGE"), Str("H5rad 2.1"), Str("20240101"),
                             Str("120000"), source),
      root_where |-> UserWhere(yscale),
      root_how |-> addparams(OdimHow("how"), "task", Str("POH")),
      group_dataset_what |-> addparams(OdimWhatDset("dataset1/what"), "product", Str("COMP")),
      dataset |-> OdimDset8bImage(Array(rank, dtype), DsetPath),
      group_data_what |-> addparams(OdimWhatDset("dataset1/data1/what"), "quantity",
                                    Str("POH"))] :
        source \in {None, Str("ORG:IT")}, yscale \in {None, Num(1000)},
        rank \in {2, 3}, dtype \in {"uint8", "float64"}}

\* image files other programs leave on disk: complete, with and without the root
\* how group, strings as byte strings
ForeignImageFiles ==
    {[attrs |-> [p \in {"what", "where", "dataset1/what", "dataset1/data1/what", DsetPath}
                         \cup hows |->
                   CASE p = "what" -> [n \in Elems(WhatNames) |-> formatstr("X")]
                     [] p = "where" -> [n \in {"projdef", "xsize"} |->
                                          IF n = "projdef" THEN formatstr("+proj=utm")
                                          ELSE Num(256)]
                     [] p = "how" -> [n \in {"task"} |-> formatstr("POH")]
                     [] p = "dataset1/what" -> [n \in {"product"} |-> formatstr("COMP")]
                     [] p = "dataset1/data1/what" -> [n \in {"quantity"} |-> formatstr("POH")]
                     [] OTHER -> [n \in {"CLASS"} |-> formatstr("IMAGE")]],
      data |-> <<Array(2, "uint8")>>] : hows \in {{}, {"how"}}}

\* a new OdimHierarchyImage and a file on disk
InitImage ==
    /\ self = NewImage
    /\ disk \in ForeignImageFiles
    /\ handle = "none"
    /\ result = Call("none", {}, 0, "", "", <<>>)

\* image.setistance(...)
ImageSetIstance ==
    \E a \in ImageArgs :
        LET r == image_setistance(self, a)
        IN /\ self' = r.obj
           /\ result' = Call("setistance", self.has, 0, "", r.err, <<>>)
           /\ UNCHANGED <<disk, handle>>

\* image.export_odim(filename)
ImageExportOdim ==
    LET r == image_export_odim(self)
    IN /\ disk' = r.store
       /\ handle' = IF r.closed THEN "closed" ELSE "open"
       /\ result' = Call("export_odim", self.has, 0, "", r.err, <<>>)
       /\ UNCHANGED self

\* image.read_odim(filename) of the file the last call named
ImageReadOdim ==
    LET r == image_read_odim(self, disk)
    IN /\ self' = r.obj
       /\ handle' = IF r.closed THEN "closed" ELSE "open"
       /\ result' = Call("read_odim", self.has, 0, "", r.err, <<>>)
       /\ UNCHANGED disk

NextImage ==
    \/ ImageSetIstance
    \/ ImageExportOdim
    \/ ImageReadOdim

SpecImage == InitImage /\ [][NextImage]_vars

\* the group and dataset objects an image hierarchy holds
HeldObjects(obj) ==
    {obj.root_what, obj.root_where, obj.root_how, obj.dataset, obj.group_data_what,
     obj.group_dataset_what}

\* every attribute value of the objects an image hierarchy holds
HeldValues(obj) == UNION {{g.dict[n] : n \in DOMAIN g.dict} : g \in HeldObjects(obj)}

\* C13 (image hierarchy): after a successful read_odim no attribute of the
\* in-memory groups is a byte string: what the file stores as a byte string is
\* held as text.
C13_BytesDecodedOnRead ==
    Returned("read_odim") => \A v \in HeldValues(self) : v.kind # "bytes"

\* C14: the data array bound to an OdimHierarchyImage has rank 2 in every state,
\* also after a setistance that raised, and an export_odim of an array of another
\* rank creates nothing in the output store.
C14_ImageDataRankTwo ==
    "dataset" \in self.has =>
        /\ self.dataset.dict["data"].rank = 2
        /\ (result.op = "export_odim" /\ self.dataset.dict["data"].rank # 2) =>
              disk = EmptyImageStore

\* C15: the file export_odim wrote reads back with a root where group that has,
\* for projdef, xsize, ysize, xscale, yscale and the eight corner coordinates,
\* the value that was set before the export.
C15_ImageWhereRoundTrip ==
    Returned("export_odim") =>
        LET r == image_read_odim(NewImage, disk)
        IN /\ "root_where" \in r.obj.has
           /\ \A n \in Elems(ReadWhereNames) :
                 self.root_where.dict[n] # None =>
                     r.obj.root_where.dict[n] = self.root_where.dict[n]


\* ---------------------------------------------------------------------
\* BUFR metadata text: one row of the table written by decbufr
\* (src/simcradarlib/io_utils/bufr_class.py).
\* A line is a sequence of one-character strings, so that column slices
\* and trimming are computed character by character.
\* ---------------------------------------------------------------------

\* How many times the same line is decoded in one behaviour.
MaxCalls == 2

\* The characters str.strip() removes that occur in a decbufr text file.
Whitespace == {" ", "\t", "\n"}

\* Python slice line[a:b]: end-exclusive, clipped to the length of line.
Slice(line, a, b) == SubSeq(line, a + 1, IF b <= Len(line) THEN b ELSE Len(line))

\* Python slice line[a:].
SliceFrom(line, a) == SubSeq(line, a + 1, Len(line))

RECURSIVE lstrip(_)
lstrip(s) == IF s # <<>> /\ Head(s) \in Whitespace THEN lstrip(Tail(s)) ELSE s

RECURSIVE rstrip(_)
rstrip(s) ==
    IF s # <<>> /\ s[Len(s)] \in Whitespace
    THEN rstrip(SubSeq(s, 1, Len(s) - 1))
    ELSE s

\* str.strip()
strip(s) == rstrip(lstrip(s))

\* Bufr._check_emptyfield: "" becomes None, anything else is kept.
check_emptyfield(substring) == IF substring = <<>> THEN None ELSE Str(substring)

\* The literal "namefile".
NamefileText == <<"n", "a", "m", "e", "f", "i", "l", "e">>

\* get_octect that hands the trimmed fields back as they are, "" included.
get_octect_raw(line) ==
    LET Octect(f_, x_, y_) ==
            IF f_ = <<"3">> /\ x_ = <<"2", "1">> /\ y_ = <<"1", "9", "3">>
            THEN <<Str(f_), Str(x_), Str(y_), Str(strip(SliceFrom(line, 9))),
                   Str(<<>>), Str(<<>>), Str(<<>>), Str(NamefileText)>>
            ELSE <<Str(f_), Str(x_), Str(y_), Str(strip(Slice(line, 9, 23))),
                   Str(strip(Slice(line, 23, 27))), Str(strip(Slice(line, 27, 32))),
                   Str(strip(Slice(line, 32, 35))), Str(strip(SliceFrom(line, 35)))>>
    IN Octect(strip(Slice(line, 0, 2)), strip(Slice(line, 2, 5)),
              strip(Slice(line, 5, 9)))

\* get_octect whose filename branch reads the spare fields from their columns.
get_octect_spare_columns(line) ==
    LET Octect(f_, x_, y_) ==
            IF f_ = <<"3">> /\ x_ = <<"2", "1">> /\ y_ = <<"1", "9", "3">>
            THEN <<check_emptyfield(f_), check_emptyfield(x_), check_emptyfield(y_),
                   check_emptyfield(strip(SliceFrom(line, 9))),
                   check_emptyfield(strip(Slice(line, 23, 27))),
                   check_emptyfield(strip(Slice(line, 27, 32))),
                   check_emptyfield(strip(Slice(line, 32, 35))),
                   check_emptyfield(NamefileText)>>
            ELSE <<check_emptyfield(f_), check_emptyfield(x_), check_emptyfield(y_),
                   check_emptyfield(strip(Slice(line, 9, 23))),
                   check_emptyfield(strip(Slice(line, 23, 27))),
                   check_emptyfield(strip(Slice(line, 27, 32))),
                   check_emptyfield(strip(Slice(line, 32, 35))),
                   check_emptyfield(strip(SliceFrom(line, 35)))>>
    IN Octect(strip(Slice(line, 0, 2)), strip(Slice(line, 2, 5)),
              strip(Slice(line, 5, 9)))

\* Bufr.get_octect: the eight fields [f_, x_, y_, value, id5, id6, id7,
\* descriptor] of one line, each trimmed and passed through
\* _check_emptyfield.
get_octect(line) ==
    LET Octect(f_, x_, y_) ==
            IF f_ = <<"3">> /\ x_ = <<"2", "1">> /\ y_ = <<"1", "9", "3">>
            THEN <<check_emptyfield(f_), check_emptyfield(x_), check_emptyfield(y_),
                   check_emptyfield(strip(SliceFrom(line, 9))),
                   check_emptyfield(<<>>), check_emptyfield(<<>>),
                   check_emptyfield(<<>>), check_emptyfield(NamefileText)>>
            ELSE <<check_emptyfield(f_), check_emptyfield(x_), check_emptyfield(y_),
                   check_emptyfield(strip(Slice(line, 9, 23))),
                   check_emptyfield(strip(Slice(line, 23, 27))),
                   check_emptyfield(strip(Slice(line, 27, 32))),
                   check_emptyfield(strip(Slice(line, 32, 35))),
                   check_emptyfield(strip(SliceFrom(line, 35)))>>
    IN Octect(strip(Slice(line, 0, 2)), strip(Slice(line, 2, 5)),
              strip(Slice(line, 5, 9)))

\* The lines handed to get_octect: columns [0,2), [2,5) and [5,9) each
\* filled, blank, or holding other digits, followed by a full row with
\* all five remaining fields, a file name followed by 32 dots, a row of
\* blanks, rows cut short inside the value column, or nothing at all.
Lines ==
    LET FColumns ==
            { <<" ", "3">>,
              <<"3", " ">>,
              <<"0", "0">>,
              <<" ", "0">>,
              <<" ", " ">> }
        XColumns ==
            { <<" ", "2", "1">>,
              <<"2", "1", " ">>,
              <<"3", "2", "1">>,
              <<" ", " ", "1">> }
        YColumns ==
            { <<" ", "1", "9", "3">>,
              <<"1", "9", "3", " ">>,
              <<"9", "3", "0", "0">>,
              <<" ", " ", "2", "1">> }
        LineTails ==
            { <<" ", " ", " ", " ", " ", " ", " ", " ", " ", " ", "1", "2", "0", "0", " ", " ", " ", "1", " ", " ", " ", " ", "2", " ", " ", "3", " ", "Y", "e", "a", "r", "\n">>,
              <<"0", "0", "1", "_", "T", "E", "S", "T", ".", "B", "U", "F", "R", ".", ".", ".", ".", ".", ".", ".", ".", ".", ".", ".", ".", ".", ".", ".", ".", ".", ".", ".", ".", ".", ".", ".", ".", ".", ".", ".", ".", ".", ".", ".", ".">>,
              <<" ", " ", " ", " ", " ", " ", " ", " ", " ", " ", " ", " ", " ", " ", " ", " ", " ", " ", " ", " ", " ", " ", " ", " ", " ", " ", "\n">>,
              <<" ", " ", "7", "\n">>,
              <<" ", " ", " ", "\n">>,
              <<>> }
    IN {f \o x \o y \o t :
            f \in FColumns, x \in XColumns, y \in YColumns, t \in LineTails}

\* The line "003219300001_TEST.BUFR" followed by 32 dots.
ScenarioLine ==
    <<"0", "0">> \o <<"3", "2", "1">> \o <<"9", "3", "0", "0">>
    \o <<"0", "0", "1", "_", "T", "E", "S", "T", ".", "B", "U", "F", "R", ".", ".", ".", ".", ".", ".", ".", ".", ".", ".", ".", ".", ".", ".", ".", ".", ".", ".", ".", ".", ".", ".", ".", ".", ".", ".", ".", ".", ".", ".", ".", ".">>

InitOctect ==
    /\ self = "Bufr"
    /\ disk \in Lines
    /\ handle = "none"
    /\ result = [op |-> "none", value |-> <<>>, calls |-> 0]

\* bufr.get_octect(line) on the current line of the text file.
GetOctect ==
    /\ result.calls < MaxCalls
    /\ result' = [op |-> "get_octect", value |-> get_octect(disk),
                  calls |-> result.calls + 1]
    /\ UNCHANGED <<self, disk, handle>>

NextOctect == GetOctect

SpecOctect == InitOctect /\ [][NextOctect]_vars

\* The smallest and the largest element of a non-empty set of integers.
SetMin(S) == CHOOSE i \in S : \A j \in S : i <= j
SetMax(S) == CHOOSE i \in S : \A j \in S : i >= j

\* What columns [a,b) of a line hold once surrounding whitespace is
\* taken away: None when every character there is whitespace (or the line
\* ends before column a), otherwise the text from the first to the last
\* character that is not whitespace.
Column(line, a, b) ==
    LET last == IF b <= Len(line) THEN b ELSE Len(line)
        inked == {i \in (a + 1)..last : line[i] \notin Whitespace}
    IN IF inked = {} THEN None ELSE Str(SubSeq(line, SetMin(inked), SetMax(inked)))

\* The line encodes the triple F=3, X=21, Y=193.
IsNamefile(line) ==
    /\ Column(line, 0, 2) = Str(<<"3">>)
    /\ Column(line, 2, 5) = Str(<<"2", "1">>)
    /\ Column(line, 5, 9) = Str(<<"1", "9", "3">>)

C17_NamefileRow ==
    (result.op = "get_octect" /\ IsNamefile(disk)) =>
        /\ result.value[4] = Column(disk, 9, Len(disk))
        /\ result.value[5] = None
        /\ result.value[6] = None
        /\ result.value[7] = None
        /\ result.value[8] = Str(NamefileText)

\* A file-name row has been decoded and its value holds the file name,
\* which runs past column 23.
C17_Witness ==
    /\ result.op = "get_octect"
    /\ IsNamefile(disk)
    /\ result.value[4] # None
    /\ Len(result.value[4].text) > 14

\* C17 (as stated): the line "003219300001_TEST.BUFR" followed by 32 dots
\* decodes to descriptor "namefile", id5, id6 and id7 None and a value
\* holding the rest of the file name.
C17_ScenarioLineIsNamefile ==
    (result.op = "get_octect" /\ disk = ScenarioLine) =>
        /\ result.value[8] = Str(NamefileText)
        /\ result.value[5] = None
        /\ result.value[6] = None
        /\ result.value[7] = None
        /\ result.value[4] # None


\* ---------------------------------------------------------------------
\* BUFR: the decoded table (Bufr.meta) and what read_bufr takes from it.
\* A table is the sequence of the rows get_octect returns; row k of the
\* model is row k-1 of the DataFrame.
\* A real number is held as the integer count of its halves, so that the
\* mean of two whole numbers is exact: 3.0 is 6, 0.5 is 1, -31 is -62.
\* ---------------------------------------------------------------------

\* Bufr.read_meta: get_octect over the lines of the text file, in order.
read_meta(lines) == [k \in 1..Len(lines) |-> get_octect(lines[k])]

\* The row labels the boolean mask (meta.F == f) & (meta.X == x) &
\* (meta.Y == y) selects; a None field equals no text.
Index(meta, f, x, y) ==
    {k \in 1..Len(meta) :
        meta[k][1] = Str(f) /\ meta[k][2] = Str(x) /\ meta[k][3] = Str(y)}

\* The value of a decimal digit.
DigitValue ==
    "0" :> 0 @@ "1" :> 1 @@ "2" :> 2 @@ "3" :> 3 @@ "4" :> 4 @@
    "5" :> 5 @@ "6" :> 6 @@ "7" :> 7 @@ "8" :> 8 @@ "9" :> 9

RECURSIVE NatOf(_)
NatOf(s) ==
    IF s = <<>> THEN 0
    ELSE 10 * NatOf(SubSeq(s, 1, Len(s) - 1)) + DigitValue[s[Len(s)]]

\* Python float(v) for the values a table holds: None raises TypeError, a
\* numeral [-]digits[.0] gives its value (in halves), any other text
\* raises ValueError.
float(v) ==
    LET Parts(neg, whole, frac) ==
            IF /\ whole # <<>>
               /\ \A i \in 1..Len(whole) : whole[i] \in DOMAIN DigitValue
               /\ \A i \in 1..Len(frac) : frac[i] = "0"
            THEN [err |-> "",
                  val |-> IF neg THEN 0 - 2 * NatOf(whole) ELSE 2 * NatOf(whole)]
            ELSE [err |-> "ValueError", val |-> 0]
        Dotted(neg, body, dots) ==
            IF dots = {} THEN Parts(neg, body, <<>>)
            ELSE Parts(neg, SubSeq(body, 1, SetMin(dots) - 1),
                       SubSeq(body, SetMin(dots) + 1, Len(body)))
        Signed(neg, body) == Dotted(neg, body, {i \in 1..Len(body) : body[i] = "."})
        Text(s) ==
            IF s # <<>> /\ Head(s) = "-" THEN Signed(TRUE, Tail(s))
            ELSE Signed(FALSE, s)
    IN IF v = None THEN [err |-> "TypeError", val |-> 0] ELSE Text(v.text)

\* Python int(x) of a real: truncation towards zero.
int(x) == IF x >= 0 THEN x \div 2 ELSE 0 - ((0 - x) \div 2)

\* The literal "missing" a level row may hold.
MissingText == <<"m", "i", "s", "s", "i", "n", "g">>

\* rad_var_class.VarZ, VarPrmm, VarCumPrmm: the name and the missing value.
VarZ == [cls |-> "VarZ", name |-> "Z", missing |-> 0 - 140]
VarPrmm == [cls |-> "VarPrmm", name |-> "pr_mm", missing |-> 0 - 2]
VarCumPrmm == [cls |-> "VarCumPrmm", name |-> "cum_pr_mm", missing |-> 0 - 2]

\* numpy levels[1:] = values on an array of n elements: the n-1 slots
\* take the values one by one, or all take the only value; any other
\* number of values raises ValueError.
AssignTail(n, values) ==
    LET Slots(slots) ==
            IF Len(values) = slots THEN [err |-> "", tail |-> values]
            ELSE IF Len(values) = 1
            THEN [err |-> "", tail |-> [i \in 1..slots |-> values[1]]]
            ELSE [err |-> "ValueError", tail |-> <<>>]
    IN Slots(IF n >= 1 THEN n - 1 ELSE 0)

\* A fill that leaves levels[1:] as read whatever the method.
Fill_as_read(levels, fill_method) == levels

\* The three fill methods applied to levels whose first element is
\* already the lower bound.
Fill(levels, fill_method) ==
    IF fill_method = "min"
    THEN [i \in 1..Len(levels) |-> IF i = 1 THEN levels[1] ELSE levels[i - 1]]
    ELSE IF fill_method = "ave"
    THEN [i \in 1..Len(levels) |->
             IF i = 1 THEN levels[1] ELSE (levels[i - 1] + levels[i]) \div 2]
    ELSE levels

\* Bufr.get_var_levs_from_meta(fill_method) on self.meta and
\* self.source.emission_center: (struct_var, levels), or the exception
\* that leaves the method. The steps are written last to first.
get_var_levs_from_meta(meta, emission_center, fill_method) ==
    LET Raise(e) == [err |-> e, struct_var |-> None, levels |-> <<>>]
        \* levels[0] = low_bounds, then the fill method
        Filled(struct_var, low_bounds, size, tail) ==
            IF tail.err # "" THEN Raise(tail.err)
            ELSE IF size = 0 THEN Raise("IndexError")
            ELSE IF fill_method \notin {"min", "ave", "max"} THEN Raise("Exception")
            ELSE [err |-> "", struct_var |-> struct_var,
                  levels |-> Fill(<<low_bounds>> \o tail.tail, fill_method)]
        \* levels[1:] = np.array([l for l in levels if l > low_bounds])
        Greater(struct_var, low_bounds, size, greater) ==
            Filled(struct_var, low_bounds, size,
                   AssignTail(size, [i \in 1..Len(greater) |-> greater[i].val]))
        \* levels[levels != "missing"].astype(float): None becomes nan
        AsFloat(struct_var, low_bounds, asfloat) ==
            IF \E i \in 1..Len(asfloat) : asfloat[i].err # "" THEN Raise("ValueError")
            ELSE Greater(struct_var, low_bounds, Len(asfloat),
                         SelectSeq(asfloat, LAMBDA l : ~l.nan /\ l.val > low_bounds))
        Parsed(parsed) == [err |-> parsed.err, nan |-> FALSE, val |-> parsed.val]
        Kept(struct_var, low_bounds, kept) ==
            AsFloat(struct_var, low_bounds,
                    [i \in 1..Len(kept) |->
                        IF kept[i] = None THEN [err |-> "", nan |-> TRUE, val |-> 0]
                        ELSE Parsed(float(kept[i]))])
        \* self.meta.iloc[ind_levs].value.values
        Levels(struct_var, low_bounds, ind_levs) ==
            IF \E i \in 1..Len(ind_levs) : ind_levs[i] > Len(meta)
            THEN Raise("IndexError")
            ELSE Kept(struct_var, low_bounds,
                      SelectSeq([i \in 1..Len(ind_levs) |-> meta[ind_levs[i]][4]],
                                LAMBDA v : v # Str(MissingText)))
        \* nlev = max(0, int(float(self.meta.iloc[index_ + 1].value)))
        Counted(struct_var, low_bounds, index_, count) ==
            IF count.err # "" THEN Raise(count.err)
            ELSE Levels(struct_var, low_bounds,
                        <<index_>> \o [i \in 1..Max2(0, int(count.val)) |->
                                           index_ + 1 + i])
        Replicated(struct_var, low_bounds, index_) ==
            IF index_ + 1 > Len(meta) THEN Raise("IndexError")
            ELSE Counted(struct_var, low_bounds, index_, float(meta[index_ + 1][4]))
        \* low_bounds, its patch, and the replication descriptor (1,1,0)
        Bounded(struct_var, marker, first) ==
            IF first.err # "" THEN Raise(first.err)
            ELSE IF marker + 1 > Len(meta) THEN Raise("IndexError")
            ELSE Replicated(
                    struct_var,
                    IF /\ emission_center = Str("DPC")
                       /\ struct_var.name = "Z"
                       /\ first.val = 0
                    THEN 0 - 62
                    ELSE first.val,
                    IF <<meta[marker + 1][1], meta[marker + 1][2], meta[marker + 1][3]>>
                           = <<Str(<<"1">>), Str(<<"1">>), Str(<<"0">>)>>
                    THEN marker + 1
                    ELSE marker)
        Marked(struct_var, marker) == Bounded(struct_var, marker, float(meta[marker][4]))
        Found(index_z, index_rr, index_cum, index_cum2) ==
            IF index_z # {} THEN Marked(VarZ, SetMin(index_z))
            ELSE IF index_rr # {} THEN Marked(VarPrmm, SetMin(index_rr))
            ELSE IF index_cum # {} THEN Marked(VarCumPrmm, SetMin(index_cum))
            ELSE IF index_cum2 # {} THEN Marked(VarCumPrmm, SetMin(index_cum2))
            ELSE Raise("Exception")
    IN Found(Index(meta, <<"3">>, <<"1", "3">>, <<"9">>),
             Index(meta, <<"3">>, <<"1", "3">>, <<"1", "0">>),
             Index(meta, <<"3">>, <<"1", "3">>, <<"1", "1">>),
             Index(meta, <<"0">>, <<"1", "3">>, <<"1", "1">>))

\* A real x (held as its count of halves) as an attribute value, next to
\* Num(n) for a Python int; a real the code writes as a literal that is no
\* multiple of 1/2 is held by its text.
Real(h) == [kind |-> "real", halves |-> h]
RealText(t) == [kind |-> "real", text |-> t]

\* An attribute the instance does not have.
Unset == [kind |-> "unset"]

\* The F, X and Y fields of a row are all None.
Blank(row) == row[1] = None /\ row[2] = None /\ row[3] = None

\* int(float(v))
IntField(v) ==
    LET Truncated(f) == [err |-> f.err, val |-> int(f.val)]
    IN Truncated(float(v))

\* The first exception in a sequence of outcomes, "" when there is none.
FirstErr(errs) ==
    LET First(raised) == IF raised = {} THEN "" ELSE errs[SetMin(raised)]
    IN First({i \in 1..Len(errs) : errs[i] # ""})

\* datetime(year, month, day, hour, minutes) raises ValueError unless
\* the five numbers are a date and time of the proleptic calendar.
IsDatetime(year, month, day, hour, minutes) ==
    LET leap == year % 4 = 0 /\ (year % 100 # 0 \/ year % 400 = 0)
        days == IF month \in {4, 6, 9, 11} THEN 30
                ELSE IF month = 2 THEN (IF leap THEN 29 ELSE 28)
                ELSE 31
    IN /\ year \in 1..9999
       /\ month \in 1..12
       /\ day \in 1..days
       /\ hour \in 0..23
       /\ minutes \in 0..59

\* Bufr.get_datetime_from_meta: the datetime or None, or the exception
\* that leaves the method. A field that was not read is -99 and becomes 0.
get_datetime_from_meta(meta) ==
    LET unread == [err |-> "", val |-> 0 - 99]
        OrZero(n) == IF n = 0 - 99 THEN 0 ELSE n
        Dated(year, month, day, hour, minutes) ==
            IF IsDatetime(year, month, day, hour, minutes)
            THEN [err |-> "",
                  dt |-> [kind |-> "datetime", year |-> year, month |-> month,
                          day |-> day, hour |-> hour, minute |-> minutes]]
            ELSE [err |-> "", dt |-> None]
        Fields(has_year, year, month, day, hour, minutes) ==
            IF year.err # "" THEN [err |-> year.err, dt |-> None]
            ELSE IF ~has_year THEN [err |-> "UnboundLocalError", dt |-> None]
            ELSE IF FirstErr(<<month.err, day.err, hour.err, minutes.err>>) # ""
            THEN [err |-> FirstErr(<<month.err, day.err, hour.err, minutes.err>>),
                  dt |-> None]
            ELSE Dated(OrZero(year.val), OrZero(month.val), OrZero(day.val),
                       OrZero(hour.val), OrZero(minutes.val))
        \* the row k places after row index, when it is a continuation row
        Following(index, k) ==
            IF index + k <= Len(meta) /\ Blank(meta[index + k])
            THEN IntField(meta[index + k][4])
            ELSE unread
        Rows(iy, ih) ==
            Fields(iy # {},
                   IF iy = {} THEN unread ELSE IntField(meta[SetMin(iy)][4]),
                   IF iy = {} THEN unread ELSE Following(SetMin(iy), 1),
                   IF iy = {} THEN unread ELSE Following(SetMin(iy), 2),
                   IF ih = {} THEN unread ELSE IntField(meta[SetMin(ih)][4]),
                   IF ih = {} THEN unread ELSE Following(SetMin(ih), 1))
    IN Rows(Index(meta, <<"3">>, <<"1">>, <<"1", "1">>),
            Index(meta, <<"3">>, <<"1">>, <<"1", "2">>))

\* Bufr.get_acc_time_from_meta: the accumulation time, or the exception
\* that leaves the method.
get_acc_time_from_meta(meta) ==
    LET Summed(days, hours) ==
            IF days.err # "" THEN [err |-> days.err, val |-> 0]
            ELSE IF hours.err # "" THEN [err |-> hours.err, val |-> 0]
            ELSE [err |-> "", val |-> 0 - days.val - hours.val]
        \* IndexError, KeyError and TypeError are caught, ValueError is not
        Period(rows, Amount(_)) ==
            LET Read(period) ==
                    IF period.err = "TypeError" THEN [err |-> "", val |-> 0]
                    ELSE [err |-> period.err, val |-> Amount(period.val)]
            IN IF rows = {} THEN [err |-> "", val |-> 0]
               ELSE Read(float(meta[SetMin(rows)][4]))
        InDays(x) == int(24 * x)
        InHours(x) == int(x)
        Significance(significance) ==
            IF significance.err # "" THEN [err |-> significance.err, val |-> 0]
            ELSE IF significance.val # 6 THEN [err |-> "", val |-> 0]
            ELSE Summed(Period(Index(meta, <<"0">>, <<"4">>, <<"2", "3">>), InDays),
                        Period(Index(meta, <<"0">>, <<"4">>, <<"2", "4">>), InHours))
        Rows(index_timesignificance) ==
            IF index_timesignificance = {} THEN [err |-> "", val |-> 0]
            ELSE Significance(float(meta[SetMin(index_timesignificance)][4]))
    IN Rows(Index(meta, <<"0">>, <<"8">>, <<"2", "1">>))

\* StructTime()
StructTime ==
    [date_time_emissione |-> Str("Unknown"), date_time_validita |-> None,
     acc_time |-> None, acc_time_unit |-> None]

\* The time read_bufr stores: the three assignments of its try block, up
\* to the first call that raises.
TimeFromMeta(meta) ==
    LET Accumulated(dt, acc) ==
            IF acc.err # "" THEN [StructTime EXCEPT !.date_time_validita = dt.dt]
            ELSE [StructTime EXCEPT !.date_time_validita = dt.dt,
                                    !.acc_time = Num(acc.val),
                                    !.acc_time_unit = Str("hours")]
        Dated(dt) ==
            IF dt.err # "" THEN StructTime
            ELSE Accumulated(dt, get_acc_time_from_meta(meta))
    IN Dated(get_datetime_from_meta(meta))

\* A strip that takes nothing off.
StripNothing(s, chars) == s

\* s.strip(chars)
RECURSIVE StripChars(_, _)
StripChars(s, chars) ==
    IF s # <<>> /\ Head(s) \in chars THEN StripChars(Tail(s), chars)
    ELSE IF s # <<>> /\ s[Len(s)] \in chars
    THEN StripChars(SubSeq(s, 1, Len(s) - 1), chars)
    ELSE s

\* s.split(c)
RECURSIVE Split(_, _)
Split(s, c) ==
    LET Cut(hits) ==
            IF hits = {} THEN <<s>>
            ELSE <<SubSeq(s, 1, SetMin(hits) - 1)>>
                 \o Split(SubSeq(s, SetMin(hits) + 1, Len(s)), c)
    IN Cut({i \in 1..Len(s) : s[i] = c})

\* sub in s
Contains(s, sub) ==
    \E i \in 0..(Len(s) - Len(sub)) : SubSeq(s, i + 1, i + Len(sub)) = sub

\* StructSource(): name_source and name_file hold texts read from the
\* table (character sequences), emission_center one of three literals.
StructSource ==
    [name_source |-> Str(<<"U", "n", "k", "n", "o", "w", "n">>), name_file |-> None,
     emission_center |-> None]

\* dict_radprods of RadarProduct.__init__: the long name of each known
\* product name.
dict_radprods ==
    <<"S", "R", "I">> :> "Surface Radar Rainfall Intensity" @@
    <<"S", "R", "T">> :> "Surface Radar Rainfall Accumulation" @@
    <<"C", "A", "P", "P", "I">> :> "Constant Altitude PPI" @@
    <<"M", "A", "X">> :> "Maximum Vertical Projection" @@
    <<"P", "P", "I">> :> "Plan Position Indicator" @@
    <<"L", "B", "M">> :> "Lowest Beam Map Reflectivity" @@
    <<"B", "E", "A", "M">> :> "Radar Beam" @@
    <<"R", "H", "I">> :> "Range-Height Indicator" @@
    <<"X", "S", "E", "C">> :> "Vertical Section" @@
    <<"E", "T", "O", "P">> :> "Echo Top" @@
    <<"H", "S", "P">> :> "HVMI horizontal panel" @@
    <<"V", "S", "P">> :> "HVIM vertical panel" @@
    <<"V", "I", "L">> :> "Vertical Integrated Liquid Water" @@
    <<"C", "L", "A", "S", "S", "_", "C", "O", "N", "V">> :> "Convective-stratiform classification" @@
    <<"P", "O", "H", "_", "A", "R", "P", "A">> :> "Probability of hail" @@
    <<"V", "I", "D">> :> "Vil density - hail size" @@
    <<"S", "U", "R", "F">> :> "Surface field" @@
    <<"C", "O", "M", "P">> :> "Cartesian composite image" @@
    <<"R", "R">> :> "Accumulation"

\* RadarProduct(name): long_name is looked up in dict_radprods when the
\* name is one of its keys, and is "None" otherwise.
RadarProduct(name) ==
    [name |-> name,
     long_name |-> IF name.text \in DOMAIN dict_radprods
                   THEN Str(dict_radprods[name.text])
                   ELSE Str("None")]

\* Bufr.get_source_product_from_meta: (source_struct, prod_struct); both
\* try blocks catch every exception, so an index past the tokens leaves
\* what was assigned before it and prod unbound.
get_source_product_from_meta(meta) ==
    LET Failed(source_struct) ==
            [source |-> source_struct, product |-> RadarProduct(Str(<<"N", "o", "n", "e">>))]
        Done(source_struct, prod) ==
            [source |-> source_struct,
             product |-> RadarProduct(Str(IF prod = <<"S", "R">> THEN <<"S", "R", "I">> ELSE prod))]
        Token(parts, n) == StripChars(parts[n], {"@"})
        Tokens(namefile, parts) ==
            IF Contains(namefile, <<"E", "M", "R", "O">>)
            THEN IF Len(parts) < 4 THEN Failed(StructSource)
                 ELSE IF Len(parts) < 5
                 THEN Failed([name_source |-> Str(Token(parts, 4)),
                              name_file |-> None,
                              emission_center |-> Str("Arpae Emilia-Romagna")])
                 ELSE Done([name_source |-> Str(Token(parts, 4)),
                            name_file |-> Str(namefile \o <<".", "B", "U", "F", "R">>),
                            emission_center |-> Str("Arpae Emilia-Romagna")],
                           IF Token(parts, 5) = <<"C", "Z">> THEN <<"L", "B", "M">>
                           ELSE Token(parts, 5))
            ELSE IF Contains(namefile, <<"P", "I", "E", "M">>)
            THEN IF Len(parts) < 5
                 THEN Failed([name_source |-> Str(<<"B", "r", "i", "c", " ", "d", "e", "l", "l", "a", " ", "C", "r", "o", "c", "e", ",", "M", "o", "n", "t", "e", " ", "S", "e", "t", "t", "e", "p", "a", "n", "i">>),
                              name_file |-> None,
                              emission_center |-> Str("Arpa Piemonte")])
                 ELSE Done([name_source |-> Str(<<"B", "r", "i", "c", " ", "d", "e", "l", "l", "a", " ", "C", "r", "o", "c", "e", ",", "M", "o", "n", "t", "e", " ", "S", "e", "t", "t", "e", "p", "a", "n", "i">>),
                            name_file |-> Str(namefile \o <<".", "B", "U", "F", "R">>),
                            emission_center |-> Str("Arpa Piemonte")],
                           Token(parts, 5))
            ELSE IF Contains(namefile, <<"R", "O", "M", "A">>)
            THEN IF Len(parts) < 3
                 THEN Failed([name_source |-> Str(<<"M", "o", "s", "a", "i", "c", "o", " ", "r", "a", "d", "a", "r", " ", "n", "a", "z", "i", "o", "n", "a", "l", "e">>),
                              name_file |-> None,
                              emission_center |-> Str("DPC")])
                 ELSE Done([name_source |-> Str(<<"M", "o", "s", "a", "i", "c", "o", " ", "r", "a", "d", "a", "r", " ", "n", "a", "z", "i", "o", "n", "a", "l", "e">>),
                            name_file |-> Str(namefile \o <<".", "B", "U", "F", "R">>),
                            emission_center |-> Str("DPC")],
                           Token(parts, 3))
            ELSE Failed([StructSource EXCEPT !.name_file = Str(namefile \o <<".", "B", "U", "F", "R">>)])
        Named(namefile) == Tokens(namefile, Split(namefile, "_"))
        Valued(value) ==
            IF value = None THEN Failed(StructSource)
            ELSE Named(Split(value.text, ".")[1])
        Rows(rows) ==
            IF rows = {} THEN Failed(StructSource)
            ELSE Valued(meta[SetMin(rows)][4])
    IN Rows({k \in 1..Len(meta) : meta[k][8] = Str(NamefileText)})

\* StructProjection(): the constructor's attributes, the class defaults
\* the method reads or writes, and the attributes addparams adds.
StructProjection ==
    [center_longitude |-> None, center_latitude |-> None, proj_name |-> None,
     earth_radius |-> None, projection_index |-> None,
     semimajor_axis |-> None, semiminor_axis |-> None,
     x_offset |-> None, y_offset |-> None,
     standard_par1 |-> Unset, standard_par2 |-> Unset,
     zone |-> Unset, pyprojstring |-> Unset]

\* float(value) of the first row (f, x, y), when there is such a row.
FloatRow(meta, f, x, y) ==
    LET Read(parsed) == [found |-> TRUE, err |-> parsed.err, val |-> parsed.val]
        Rows(rows) ==
            IF rows = {} THEN [found |-> FALSE, err |-> "", val |-> 0]
            ELSE Read(float(meta[SetMin(rows)][4]))
    IN Rows(Index(meta, f, x, y))

\* Bufr.get_projection_from_meta on self.meta and self.source: the
\* projection, or the exception that leaves the method (IndexError and
\* AttributeError are caught inside, TypeError and ValueError are not).
\* utm is what pyproj returns for the north-west corner of a Piemonte
\* grid. The steps are written last to first.
get_projection_from_meta(meta, source, utm) ==
    LET Return(p) == [err |-> "", proj |-> p]
        Raise(e) == [err |-> e, proj |-> None]
        Named(p, name) == [p EXCEPT !.proj_name = Str(name)]
        \* the formatted centre needs both coordinates to be numbers
        Formatted(p, proj) ==
            IF p.center_latitude = None \/ p.center_longitude = None
            THEN Raise("TypeError")
            ELSE Return([p EXCEPT !.pyprojstring =
                            [proj |-> proj, lat_0 |-> p.center_latitude,
                             lon_0 |-> p.center_longitude]])
        Emilia(read) ==
            Formatted(
                [(IF source.name_source = Str(<<"G", "A", "T">>)
                  THEN [read EXCEPT !.center_longitude = RealText("10.4992"),
                                    !.center_latitude = RealText("44.7914")]
                  ELSE IF source.name_source = Str(<<"S", "P", "C">>)
                  THEN [read EXCEPT !.center_longitude = RealText("11.6236"),
                                    !.center_latitude = RealText("44.6547")]
                  ELSE read)
                 EXCEPT !.projection_index = Num(0),
                        !.proj_name = Str("Cartesian lat-lon"),
                        !.earth_radius = RealText("6370.997")],
                "eqc")
        Dpc(read) ==
            Formatted(
                IF read.semimajor_axis = Real(0) /\ read.semiminor_axis = Real(0)
                THEN [read EXCEPT !.semimajor_axis = Real(2 * 6370997),
                                  !.semiminor_axis = Real(2 * 6370997),
                                  !.earth_radius = Real(2 * 6370997),
                                  !.proj_name = Str("tmerc")]
                ELSE [read EXCEPT !.earth_radius = read.semimajor_axis,
                                  !.proj_name = Str("tmerc")],
                "tmerc")
        Corner(utm32, corner) ==
            LET Longitude(lon_nw) ==
                    IF lon_nw.err # "" THEN Raise(lon_nw.err)
                    ELSE Return([utm32 EXCEPT !.x_offset = Real(utm[1]),
                                              !.y_offset = Real(utm[2])])
                Latitude(lat_nw) ==
                    IF lat_nw.err # "" THEN Raise(lat_nw.err)
                    ELSE IF SetMin(corner) + 1 > Len(meta) THEN Return(utm32)
                    ELSE Longitude(float(meta[SetMin(corner) + 1][4]))
            IN IF corner = {} THEN Return(utm32)
               ELSE Latitude(float(meta[SetMin(corner)][4]))
        Piemonte(read) ==
            Corner([read EXCEPT
                       !.earth_radius = Real(2 * 6378388),
                       !.semimajor_axis = Real(2 * 6378388),
                       !.semiminor_axis = RealText("6356911.94613"),
                       !.zone = Num(32),
                       !.pyprojstring = [proj |-> "utm", zone |-> 32],
                       !.proj_name = Str("utm")],
                   Index(meta, <<"3">>, <<"1">>, <<"2", "3">>))
        Typed(read, proj_type_int) ==
            IF proj_type_int.err # "" THEN Raise(proj_type_int.err)
            ELSE IF proj_type_int.val = 0
            THEN IF source.emission_center = Str("Arpae Emilia-Romagna")
                 THEN Emilia(read)
                 ELSE Return(read)
            ELSE IF proj_type_int.val = 1
            THEN IF read.center_latitude = Real(180)
                 THEN Return([Named(read, "Polar stereographic") EXCEPT
                                 !.center_latitude = Real(0)])
                 ELSE Return(Named(read, "Stereographic"))
            ELSE IF proj_type_int.val = 2
            THEN Return(Named(read, "Lambert Conformal Conic"))
            ELSE IF proj_type_int.val = 3
            THEN IF source.emission_center = Str("DPC") THEN Dpc(read)
                 ELSE IF source.emission_center = Str("Arpa Piemonte")
                 THEN Piemonte(read)
                 ELSE Return(Named(read, "Mercator"))
            ELSE IF proj_type_int.val = 4
            THEN Return(Named(read, "Azimuthal Equidistant"))
            ELSE IF proj_type_int.val = 5
            THEN Return(Named(read, "Lambert Azimuthal"))
            ELSE Return(read)
        Type(read, index201, index1) ==
            IF index201 # {} THEN Typed(read, IntField(meta[SetMin(index201)][4]))
            ELSE IF index1 # {} THEN Typed(read, IntField(meta[SetMin(index1)][4]))
            ELSE Return(read)
        OrZero(r) == Real(IF r.found THEN r.val ELSE 0)
        Read(clon, clat, smaj, smin, xoff, yoff, par1, par2) ==
            IF FirstErr(<<clon.err, clat.err, smaj.err, smin.err,
                          xoff.err, yoff.err, par1.err, par2.err>>) # ""
            THEN Raise(FirstErr(<<clon.err, clat.err, smaj.err, smin.err,
                                  xoff.err, yoff.err, par1.err, par2.err>>))
            ELSE Type([StructProjection EXCEPT
                          !.center_longitude =
                              IF clon.found THEN Real(clon.val) ELSE None,
                          !.center_latitude =
                              IF clat.found THEN Real(clat.val) ELSE None,
                          !.semimajor_axis = OrZero(smaj),
                          !.semiminor_axis = OrZero(smin),
                          !.x_offset =
                              IF ~xoff.found THEN Real(0)
                              ELSE IF source.emission_center = Str("DPC")
                                      /\ xoff.val > 0
                              THEN Real(0 - xoff.val)
                              ELSE Real(xoff.val),
                          !.y_offset = OrZero(yoff),
                          !.standard_par1 = OrZero(par1),
                          !.standard_par2 = OrZero(par2)],
                      Index(meta, <<"0">>, <<"2", "9">>, <<"2", "0", "1">>),
                      Index(meta, <<"0">>, <<"2", "9">>, <<"1">>))
    IN Read(FloatRow(meta, <<"0">>, <<"2", "9">>, <<"1", "9", "3">>),
            FloatRow(meta, <<"0">>, <<"2", "9">>, <<"1", "9", "4">>),
            FloatRow(meta, <<"0">>, <<"2", "9">>, <<"1", "9", "9">>),
            FloatRow(meta, <<"0">>, <<"2", "9">>, <<"2", "0", "0">>),
            FloatRow(meta, <<"0">>, <<"2", "9">>, <<"1", "9", "5">>),
            FloatRow(meta, <<"0">>, <<"2", "9">>, <<"1", "9", "6">>),
            FloatRow(meta, <<"0">>, <<"2", "9">>, <<"1", "9", "7">>),
            FloatRow(meta, <<"0">>, <<"2", "9">>, <<"1", "9", "8">>))

\* StructGrid(): nx and ny are attributes only once addparams sets them.
StructGrid ==
    [limiti |-> <<None, None, None, None>>, dx |-> None, dy |-> None,
     units_dx |-> None, units_dy |-> None, nx |-> Unset, ny |-> Unset]

\* Bufr.get_grid_from_meta on self.meta and self.projection: the grid, or
\* the exception that leaves the method. A missing row is an IndexError
\* caught inside, which also skips the row read after it in the same try
\* block; limiti then reads an attribute that was never set
\* (AttributeError) or multiplies by None (TypeError).
get_grid_from_meta(meta, projection) ==
    LET Raise(e) == [err |-> e, grid |-> None]
        absent == [found |-> FALSE, err |-> "", val |-> 0]
        Limits(ny, nx, dy, dx, x_offset, y_offset) ==
            IF FirstErr(<<ny.err, nx.err, dy.err, dx.err>>) # ""
            THEN Raise(FirstErr(<<ny.err, nx.err, dy.err, dx.err>>))
            ELSE IF ~ny.found THEN Raise("AttributeError")
            ELSE IF ~dy.found THEN Raise("TypeError")
            ELSE IF ~nx.found THEN Raise("AttributeError")
            ELSE IF ~dx.found THEN Raise("TypeError")
            ELSE [err |-> "",
                  grid |->
                      [limiti |-> <<y_offset - int(ny.val) * dy.val, x_offset,
                                    y_offset, x_offset + int(nx.val) * dx.val>>,
                       dx |-> Real(dx.val), dy |-> Real(dy.val),
                       units_dx |-> Str("meters"), units_dy |-> Str("meters"),
                       nx |-> Num(int(nx.val)), ny |-> Num(int(ny.val))]]
        Second(first, second) ==
            IF first.found /\ first.err = "" THEN second ELSE absent
        Rows(ny, nx, dy, dx) ==
            Limits(ny, Second(ny, nx), dy, Second(dy, dx),
                   projection.x_offset.halves, projection.y_offset.halves)
    IN Rows(FloatRow(meta, <<"0">>, <<"3", "0">>, <<"2", "2">>),
            FloatRow(meta, <<"0">>, <<"3", "0">>, <<"2", "1">>),
            FloatRow(meta, <<"0">>, <<"6">>, <<"3", "3">>),
            FloatRow(meta, <<"0">>, <<"5">>, <<"3", "3">>))

\* A pandas DataFrame and a numpy array as attribute values.
DataFrame(rows) == [kind |-> "DataFrame", rows |-> rows]
Ndarray(values) == [kind |-> "ndarray", values |-> values]

\* Bufr(): __init__ sets no attribute.
NewBufr ==
    [meta |-> Unset, time |-> Unset, source |-> Unset, product |-> Unset,
     projection |-> Unset, grid |-> Unset, variabile |-> Unset, levels |-> Unset]

\* np.array(lines_rb).reshape((nx, ny)), the shape read_bufr used to ask
\* for, read as ny rows of nx codes.
reshape_nx_ny(lines_rb, ny, nx) ==
    [r \in 1..ny |-> [c \in 1..nx |-> lines_rb[(c - 1) * ny + r]]]

\* np.array(lines_rb).reshape((ny, nx)): ny rows of nx codes, row-major.
reshape(lines_rb, ny, nx) ==
    [r \in 1..ny |-> [c \in 1..nx |-> lines_rb[(r - 1) * nx + c]]]

\* The loop of read_bufr over idl = 0 .. len(levels) - 1:
\* out_field[cont == idl] = levels[idl].
RECURSIVE FillLoop(_, _, _, _)
FillLoop(out_field, cont, levels, idl) ==
    IF idl >= Len(levels) THEN out_field
    ELSE FillLoop(
            [r \in 1..Len(out_field) |->
                [c \in 1..Len(out_field[r]) |->
                    IF cont[r][c] = idl THEN levels[idl + 1] ELSE out_field[r][c]]],
            cont, levels, idl + 1)

\* Bufr.read_bufr(fname_bufr_data, fname_bufr_meta, fill_method): the
\* instance as the call leaves it, and either (macro, out_field) or the
\* exception raised to the caller. files holds the two decbufr outputs:
\* the lines of the text file and the bytes of the binary file. The steps
\* are written last to first, each taking the instance o as the steps
\* before it left it.
read_bufr_raise(o, e) == [obj |-> o, err |-> e, value |-> None]

\* return macro, out_field
read_bufr_return(o, out_field) ==
    [obj |-> o, err |-> "",
     value |-> [macro |-> [TIME |-> o.time, GRID |-> o.grid,
                           SOURCE |-> o.source, PRODUCT |-> o.product,
                           VARIABILE |-> o.variabile,
                           PROJECTION |-> o.projection],
                out_field |-> Ndarray(out_field)]]

\* The binary file is read, reshaped and decoded into out_field.
read_bufr_data(files, o, levels, missing, ny, nx) ==
    \* the binary file could not be read: lines_rb is not bound
    IF ~files.has_bin THEN read_bufr_raise(o, "UnboundLocalError")
    \* the reshape raised ValueError, which is logged: cont is not bound
    \* when the loop compares it
    ELSE IF Len(files.bin) # ny * nx THEN read_bufr_raise(o, "UnboundLocalError")
    ELSE read_bufr_return(o, FillLoop([r \in 1..ny |-> [c \in 1..nx |-> missing]],
                                      reshape(files.bin, ny, nx), levels, 0))

\* A read that logs the failure of get_var_levs_from_meta and goes on
\* without levels, as it does for an empty table.
read_bufr_levels_logged(files, o, vl) ==
    IF vl.err # ""
    THEN read_bufr_return([o EXCEPT !.variabile = None, !.levels = None], <<>>)
    ELSE read_bufr_data(files,
                        [o EXCEPT !.variabile = vl.struct_var,
                                  !.levels = Ndarray(vl.levels)],
                        vl.levels, vl.struct_var.missing,
                        o.grid.ny.val, o.grid.nx.val)

\* self.variabile, self.levels = self.get_var_levs_from_meta(fill_method)
read_bufr_levels(files, o, vl) ==
    IF vl.err # "" THEN read_bufr_raise(o, vl.err)
    ELSE read_bufr_data(files,
                        [o EXCEPT !.variabile = vl.struct_var,
                                  !.levels = Ndarray(vl.levels)],
                        vl.levels, vl.struct_var.missing,
                        o.grid.ny.val, o.grid.nx.val)

\* self.grid = self.get_grid_from_meta()
read_bufr_grid(files, fill_method, o, meta, gr) ==
    IF gr.err # "" THEN read_bufr_raise(o, gr.err)
    ELSE read_bufr_levels(files, [o EXCEPT !.grid = gr.grid],
                          get_var_levs_from_meta(meta, o.source.emission_center,
                                                 fill_method))

\* self.projection = self.get_projection_from_meta()
read_bufr_projection(files, fill_method, o, meta, pr) ==
    IF pr.err # "" THEN read_bufr_raise(o, pr.err)
    ELSE read_bufr_grid(files, fill_method, [o EXCEPT !.projection = pr.proj],
                        meta, get_grid_from_meta(meta, pr.proj))

\* self.source, self.product = self.get_source_product_from_meta()
read_bufr_source(files, fill_method, utm, o, meta, sp) ==
    read_bufr_projection(files, fill_method,
                         [o EXCEPT !.source = sp.source, !.product = sp.product],
                         meta, get_projection_from_meta(meta, sp.source, utm))

\* "Metadati vuoti!": self.levels = None; the macro then reads attributes
\* only an earlier call can have set, and out_field is not bound.
read_bufr_empty(o) ==
    IF Unset \in {o.grid, o.source, o.product, o.variabile, o.projection}
    THEN read_bufr_raise(o, "AttributeError")
    ELSE read_bufr_raise(o, "UnboundLocalError")

\* self.meta = self.read_meta(fname_bufr_meta) and the test on its size.
read_bufr_meta(obj, files, fill_method, utm, df_meta) ==
    IF df_meta = <<>>
    THEN read_bufr_empty([obj EXCEPT !.meta = DataFrame(df_meta),
                                     !.time = StructTime, !.levels = None])
    ELSE read_bufr_source(files, fill_method, utm,
                          [obj EXCEPT !.meta = DataFrame(df_meta),
                                      !.time = TimeFromMeta(df_meta)],
                          df_meta, get_source_product_from_meta(df_meta))

read_bufr(obj, files, fill_method, utm) ==
    read_bufr_meta(obj, files, fill_method, utm,
                   IF files.has_txt THEN read_meta(files.txt) ELSE <<>>)

\* The decimal numeral decbufr prints for an integer.
RECURSIVE Numeral(_)
Numeral(n) ==
    LET digits == <<"0", "1", "2", "3", "4", "5", "6", "7", "8", "9">>
    IN IF n < 0 THEN <<"-">> \o Numeral(0 - n)
       ELSE IF n < 10 THEN <<digits[n + 1]>>
       ELSE Numeral(n \div 10) \o <<digits[(n % 10) + 1]>>

\* One line of the text file: F, X, Y and the value right-aligned in
\* columns [0,2), [2,5), [5,9) and [9,23); the line ends there.
MetaLine(f, x, y, value) ==
    LET Pad(s, width) == [i \in 1..(width - Len(s)) |-> " "] \o s
    IN Pad(f, 2) \o Pad(x, 3) \o Pad(y, 4) \o Pad(value, 14) \o <<"\n">>

\* What a BUFR message holds, as far as read_bufr looks at it: the name
\* of the file (none when empty), whether the grid has its nx row, the
\* kind of field, whether a replication descriptor (1,1,0) follows the
\* marker, the lower bound b and the level entries v (a whole number or
\* the word "missing"). The grid is 2 rows of 3 pixels of 1000 m.
Level(n) == [missing |-> FALSE, n |-> n]
MissingLevel == [missing |-> TRUE, n |-> 0]

Message(namefile, nx_row, marker, rep, b, v) ==
    [namefile |-> namefile, nx_row |-> nx_row, marker |-> marker, rep |-> rep,
     b |-> b, v |-> v]

NoName == <<>>
EmroName == <<"C", "O", "M", "P", "_", "E", "M", "R", "O", "_", "X", "_", "S", "P", "C", "@", "_", "C", "Z", "@", "@", ".", "B", "U", "F", "R">>
RomaName == <<"C", "O", "M", "P", "_", "R", "O", "M", "A", "_", "S", "R", "I", "@", ".", "B", "U", "F", "R">>

\* A reflectivity composite whose entries are all above the lower bound.
CleanZ == Message(NoName, TRUE, "Z", FALSE, 0, <<Level(1), Level(2), Level(3)>>)

Messages ==
    { CleanZ,
      Message(NoName, TRUE, "Z", FALSE, 0, <<Level(1), MissingLevel, Level(3)>>),
      Message(NoName, TRUE, "Z", FALSE, 0, <<Level(0), Level(1)>>),
      Message(NoName, TRUE, "rr", FALSE, 0, <<Level(0), Level(1), Level(2)>>),
      Message(EmroName, TRUE, "rr", TRUE, 1, <<Level(2), Level(4)>>),
      Message(EmroName, TRUE, "cum", FALSE, 2, <<Level(1), Level(3), Level(5)>>),
      Message(NoName, TRUE, "cum2", TRUE, 0, <<Level(1), Level(2), Level(3)>>),
      Message(RomaName, TRUE, "Z", FALSE, 0, <<Level(1), Level(2), Level(3)>>),
      Message(RomaName, TRUE, "Z", TRUE, 0, <<Level(1), Level(2), Level(3)>>),
      Message(RomaName, TRUE, "none", FALSE, 0, <<>>),
      Message(NoName, TRUE, "none", FALSE, 0, <<>>),
      Message(NoName, FALSE, "Z", FALSE, 0, <<Level(1), Level(2), Level(3)>>) }

\* The text file decbufr writes for a message.
TableOf(m) ==
    LET triple ==
            IF m.marker = "Z" THEN <<<<"3">>, <<"1", "3">>, <<"9">>>>
            ELSE IF m.marker = "rr" THEN <<<<"3">>, <<"1", "3">>, <<"1", "0">>>>
            ELSE IF m.marker = "cum" THEN <<<<"3">>, <<"1", "3">>, <<"1", "1">>>>
            ELSE <<<<"0">>, <<"1", "3">>, <<"1", "1">>>>
        name == IF m.namefile = <<>> THEN <<>>
                ELSE << <<" ", "3", " ", "2", "1", " ", "1", "9", "3", " ">> \o m.namefile \o <<"\n">> >>
        grid == <<MetaLine(<<"0">>, <<"3", "0">>, <<"2", "2">>, Numeral(2))>>
                \o (IF m.nx_row THEN <<MetaLine(<<"0">>, <<"3", "0">>, <<"2", "1">>, Numeral(3))>>
                    ELSE <<>>)
                \o <<MetaLine(<<"0">>, <<"6">>, <<"3", "3">>, Numeral(1000)),
                     MetaLine(<<"0">>, <<"5">>, <<"3", "3">>, Numeral(1000))>>
        levels ==
            IF m.marker = "none" THEN <<>>
            ELSE <<MetaLine(triple[1], triple[2], triple[3], Numeral(m.b))>>
                 \o (IF m.rep THEN <<MetaLine(<<"1">>, <<"1">>, <<"0">>, <<>>)>> ELSE <<>>)
                 \o <<MetaLine(<<"0">>, <<"3", "1">>, <<"1">>, Numeral(Len(m.v)))>>
                 \o [i \in 1..Len(m.v) |->
                        MetaLine(<<>>, <<>>, <<>>,
                                 IF m.v[i].missing THEN MissingText
                                 ELSE Numeral(m.v[i].n))]
    IN name \o grid \o levels

\* The two files decbufr leaves for a message: the text file and the
\* binary file of one code per pixel; either may be missing. Every
\* message comes with a payload of codes below the number of levels; the
\* clean composite also comes with codes above it, with a payload of the
\* wrong length and with each file missing.
BufrFile(m, has_txt, has_bin, bin) ==
    [bufr |-> m, has_txt |-> has_txt, txt |-> IF has_txt THEN TableOf(m) ELSE <<>>,
     has_bin |-> has_bin, bin |-> bin]

BufrFiles ==
    { BufrFile(m, TRUE, TRUE, <<0, 1, 2, 3, 1, 0>>) : m \in Messages }
    \cup
    { BufrFile(CleanZ, TRUE, TRUE, <<3, 2, 9, 0, 0, 4>>),
      BufrFile(CleanZ, TRUE, TRUE, <<0, 1, 2, 3>>),
      BufrFile(CleanZ, TRUE, FALSE, <<>>),
      BufrFile(CleanZ, FALSE, TRUE, <<0, 1, 2, 3, 1, 0>>) }

\* The fill methods a caller passes; "mean" is not one the method knows.
FillMethods == {"min", "ave", "max", "mean"}

\* What pyproj returns for the corner of a Piemonte grid.
UtmCorners == {<<10, 20>>}

BufrCall(op, fill_method, err, value) ==
    [op |-> op, fill_method |-> fill_method, err |-> err, value |-> value]

InitBufr ==
    /\ self = NewBufr
    /\ disk \in BufrFiles
    /\ handle = "none"
    /\ result = BufrCall("none", "", "", None)

\* bufr.read_bufr(fname_bufr_data, fname_bufr_meta, fill_method)
ReadBufr ==
    \E fill_method \in FillMethods, utm \in UtmCorners :
        LET Done(r) ==
                /\ self' = r.obj
                /\ result' = BufrCall("read_bufr", fill_method, r.err, r.value)
                /\ UNCHANGED <<disk, handle>>
        IN Done(read_bufr(self, disk, fill_method, utm))

\* bufr.get_var_levs_from_meta(fill_method) on an instance read_bufr has
\* given its meta and source.
GetVarLevsFromMeta ==
    \E fill_method \in FillMethods :
        LET Done(r) ==
                /\ result' = BufrCall("get_var_levs_from_meta", fill_method, r.err,
                                      IF r.err # "" THEN None
                                      ELSE [struct_var |-> r.struct_var,
                                            levels |-> Ndarray(r.levels)])
                /\ UNCHANGED <<self, disk, handle>>
        IN /\ self.meta # Unset
           /\ Done(get_var_levs_from_meta(
                        self.meta.rows,
                        IF self.source = Unset THEN None
                        ELSE self.source.emission_center,
                        fill_method))

NextBufr == ReadBufr \/ GetVarLevsFromMeta

SpecBufr == InitBufr /\ [][NextBufr]_vars

\* The numeric level entries of a message, in halves: entries equal to
\* "missing" dropped.
NumericLevels(m) ==
    LET numeric == SelectSeq(m.v, LAMBDA l : ~l.missing)
    IN [i \in 1..Len(numeric) |-> 2 * numeric[i].n]

\* The levels the specification states for lower bound b and numeric
\* values v (both in halves) under a fill method.
StatedLevels(b, v, fill_method) ==
    <<b>> \o
    [i \in 1..Len(v) |->
        IF fill_method = "min" THEN (IF i = 1 THEN b ELSE v[i - 1])
        ELSE IF fill_method = "ave"
        THEN ((IF i = 1 THEN b ELSE v[i - 1]) + v[i]) \div 2
        ELSE v[i]]

\* The lower bound of the message is one the DPC patch replaces.
DpcPatched(m) == m.namefile = RomaName /\ m.marker = "Z" /\ m.b = 0

\* C18: for lower bound b and numeric level values v1..vn read after the
\* count row ("missing" entries dropped), get_var_levs_from_meta returns
\* n+1 levels: b first, then [b, v1..v(n-1)] for "min", [v1..vn] for
\* "max" and the pairwise means of [b, v1..vn] for "ave". Tables whose
\* lower bound the DPC patch replaces are left out.
C18_LevelReconstruction ==
    ( /\ result.op = "get_var_levs_from_meta"
      /\ result.fill_method \in {"min", "ave", "max"}
      /\ disk.has_txt
      /\ disk.bufr.marker # "none"
      /\ ~DpcPatched(disk.bufr) )
    => /\ result.err = ""
       /\ result.value.levels =
              Ndarray(StatedLevels(2 * disk.bufr.b, NumericLevels(disk.bufr),
                                   result.fill_method))

\* C18 where every numeric value is above the lower bound.
C18_AboveLowerBound ==
    (\A i \in 1..Len(disk.bufr.v) :
        disk.bufr.v[i].missing \/ disk.bufr.v[i].n > disk.bufr.b)
    => C18_LevelReconstruction

\* A table with a value equal to the lower bound has been decoded.
C18_ValueAtLowerBound ==
    /\ result.op = "get_var_levs_from_meta"
    /\ disk.bufr.marker # "none"
    /\ \E i \in 1..Len(disk.bufr.v) :
        ~disk.bufr.v[i].missing /\ disk.bufr.v[i].n <= disk.bufr.b

\* The code of pixel (r, c) in a payload of rows of nx codes.
CodeAt(bin, nx, r, c) == bin[(r - 1) * nx + c]

\* C19: a successful read_bufr returns a field of ny rows of nx pixels,
\* filled row-major from the payload: a pixel whose code k is an index of
\* the level array has the value levels[k], and any other pixel has the
\* variable's missing value.
C19_BinnedField ==
    (result.op = "read_bufr" /\ result.err = "")
    => /\ Len(disk.bin) = self.grid.ny.val * self.grid.nx.val
       /\ Len(result.value.out_field.values) = self.grid.ny.val
       /\ \A r \in 1..self.grid.ny.val :
            /\ Len(result.value.out_field.values[r]) = self.grid.nx.val
            /\ \A c \in 1..self.grid.nx.val :
                 result.value.out_field.values[r][c] =
                     IF CodeAt(disk.bin, self.grid.nx.val, r, c)
                            < Len(self.levels.values)
                     THEN self.levels.values[
                              CodeAt(disk.bin, self.grid.nx.val, r, c) + 1]
                     ELSE self.variabile.missing

\* A payload with codes on both sides of the number of levels has been
\* decoded into a field, and the levels differ from one another.
C19_Witness ==
    /\ result.op = "read_bufr"
    /\ result.err = ""
    /\ \E i \in 1..Len(disk.bin) : disk.bin[i] >= Len(self.levels.values)
    /\ \E i \in 1..Len(disk.bin) : disk.bin[i] \in 1..(Len(self.levels.values) - 1)
    /\ \A i, j \in 1..Len(self.levels.values) :
          i # j => self.levels.values[i] # self.levels.values[j]

\* The call asks for something the method does not provide: the table
\* has none of the field-kind marker rows, or the fill method is not one
\* of "min", "ave", "max".
ContractViolated(files, fill_method) ==
    \/ ~files.has_txt
    \/ files.bufr.marker = "none"
    \/ fill_method \notin {"min", "ave", "max"}

\* C20: get_var_levs_from_meta, and read_bufr which calls it, raise to
\* the caller when the table has no field-kind marker row or fill_method
\* is not "min", "ave" or "max": nothing is returned, and the instance
\* keeps the variable it had and, when a table was read, its levels.
C20_FailLoudly ==
    [][ ( /\ result'.op \in {"read_bufr", "get_var_levs_from_meta"}
          /\ ContractViolated(disk, result'.fill_method) )
        => /\ result'.err # ""
           /\ result'.value = None
           /\ self'.variabile = self.variabile
           /\ disk.has_txt => self'.levels = self.levels ]_vars

\* read_bufr has raised the exception of get_var_levs_from_meta on a
\* table without a marker row.
C20_Witness ==
    /\ result.op = "read_bufr"
    /\ result.err = "Exception"
    /\ disk.bufr.marker = "none"
    /\ result.fill_method \in {"min", "ave", "max"}

\* get_var_levs_from_meta has raised on a fill method it does not know,
\* for a table that has a marker row.
C20_UnknownFillMethod ==
    /\ result.op = "get_var_levs_from_meta"
    /\ result.err = "Exception"
    /\ disk.bufr.marker = "Z"
    /\ result.fill_method = "mean"
    /\ self.levels # Unset

\* The payload does not hold one code per pixel of the decoded grid.
PayloadMismatch(files, obj) ==
    /\ files.has_bin
    /\ obj.grid # Unset
    /\ Len(files.bin) # obj.grid.ny.val * obj.grid.nx.val

\* C21: when the byte count of the payload differs from ny*nx of the
\* decoded grid, read_bufr raises the error of the reshape (ValueError)
\* to the caller.
C21_ReshapeErrorRaised ==
    ( /\ result.op = "read_bufr"
      /\ self.levels \notin {Unset, None}
      /\ result.fill_method \in {"min", "ave", "max"}
      /\ PayloadMismatch(disk, self) )
    => result.err = "ValueError"

\* The mismatch ends the call all the same, with the error of a later
\* step: the name cont is not bound when the loop over the levels reads it.
C21_UnboundLocalError ==
    ( /\ result.op = "read_bufr"
      /\ self.levels \notin {Unset, None}
      /\ result.fill_method \in {"min", "ave", "max"}
      /\ PayloadMismatch(disk, self) )
    => result.err = "UnboundLocalError" /\ result.value = None

\* A payload of the wrong length has been read.
C21_Mismatch ==
    /\ result.op = "read_bufr"
    /\ self.levels \notin {Unset, None}
    /\ result.fill_method \in {"min", "ave", "max"}
    /\ PayloadMismatch(disk, self)

\* ---------------------------------------------------------------------
\* BUFR: the metadata methods called one by one on a decoded table, as
\* read_bufr calls them (read_meta, the two time methods, then source and
\* product, projection and grid, each result stored on the instance).
\* ---------------------------------------------------------------------

\* A row of the table as a message may carry it: absent, holding a whole
\* number, or holding the word "missing".
Absent == [kind |-> "absent", n |-> 0]
Value(n) == [kind |-> "value", n |-> n]
MissingValue == [kind |-> "missing", n |-> 0]

\* The rows (f, x, y) a message has for an optional value.
OptRow(f, x, y, o) ==
    IF o.kind = "absent" THEN <<>>
    ELSE <<MetaLine(f, x, y, IF o.kind = "missing" THEN MissingText ELSE Numeral(o.n))>>

\* A token of a file name: its text and the number of "@" that pad it.
NameToken(text, pad) == [text |-> text, pad |-> pad]

\* The file name made of tokens: the padded tokens joined by "_", then
\* ".BUFR"; no tokens, no name row.
RECURSIVE JoinTokens(_)
JoinTokens(tokens) ==
    IF tokens = <<>> THEN <<>>
    ELSE tokens[1].text \o [i \in 1..tokens[1].pad |-> "@"]
         \o (IF Len(tokens) = 1 THEN <<>>
             ELSE <<"_">> \o JoinTokens(Tail(tokens)))

NameOf(tokens) ==
    IF tokens = <<>> THEN NoName ELSE JoinTokens(tokens) \o <<".", "B", "U", "F", "R">>

EmroTokens ==
    <<NameToken(<<"C", "O", "M", "P">>, 0), NameToken(<<"E", "M", "R", "O">>, 0), NameToken(<<"X">>, 0),
      NameToken(<<"S", "P", "C">>, 1), NameToken(<<"C", "Z">>, 2)>>
RomaTokens == <<NameToken(<<"C", "O", "M", "P">>, 0), NameToken(<<"R", "O", "M", "A">>, 0), NameToken(<<"S", "R", "I">>, 1)>>
BoloTokens ==
    <<NameToken(<<"C", "O", "M", "P">>, 0), NameToken(<<"E", "M", "R", "O">>, 0), NameToken(<<"X">>, 0),
      NameToken(<<"B", "O", "L">>, 1), NameToken(<<"C", "Z">>, 2)>>

\* The names of the files: the three families with enough tokens, a name
\* of two families, names with too few tokens, a name of no family, and
\* no name row at all.
NameTokens ==
    { <<>>, EmroTokens, RomaTokens, BoloTokens,
      <<NameToken(<<"C", "O", "M", "P">>, 0), NameToken(<<"E", "M", "R", "O">>, 0), NameToken(<<"X">>, 0),
        NameToken(<<"G", "A", "T">>, 1), NameToken(<<"S", "R">>, 2)>>,
      <<NameToken(<<"C", "O", "M", "P">>, 0), NameToken(<<"P", "I", "E", "M">>, 0), NameToken(<<"X">>, 0),
        NameToken(<<"B", "R", "I">>, 1), NameToken(<<"C", "Z">>, 2)>>,
      <<NameToken(<<"C", "O", "M", "P">>, 0), NameToken(<<"P", "I", "E", "M">>, 0), NameToken(<<"X">>, 0),
        NameToken(<<"B", "R", "I">>, 1), NameToken(<<"S", "R">>, 2)>>,
      <<NameToken(<<"C", "O", "M", "P">>, 0), NameToken(<<"R", "O", "M", "A">>, 0), NameToken(<<"C", "Z">>, 2)>>,
      <<NameToken(<<"C", "O", "M", "P">>, 0), NameToken(<<"R", "O", "M", "A">>, 0), NameToken(<<"S", "R">>, 2)>>,
      <<NameToken(<<"R", "O", "M", "A">>, 0), NameToken(<<"E", "M", "R", "O">>, 0), NameToken(<<"X">>, 0),
        NameToken(<<"S", "P", "C">>, 1), NameToken(<<"S", "R", "T">>, 1)>>,
      <<NameToken(<<"E", "M", "R", "O">>, 0), NameToken(<<"X">>, 0), NameToken(<<"S", "P", "C">>, 1)>>,
      <<NameToken(<<"C", "O", "M", "P">>, 0), NameToken(<<"E", "M", "R", "O">>, 0), NameToken(<<"X">>, 0), NameToken(<<"S", "P", "C">>, 1)>>,
      <<NameToken(<<"C", "O", "M", "P">>, 0), NameToken(<<"P", "I", "E", "M">>, 0), NameToken(<<"X">>, 0), NameToken(<<"B", "R", "I">>, 1)>>,
      <<NameToken(<<"R", "O", "M", "A">>, 0), NameToken(<<"S", "R", "I">>, 1)>>,
      <<NameToken(<<"C", "O", "M", "P">>, 0), NameToken(<<"B", "O", "L", "O">>, 0), NameToken(<<"X">>, 0),
        NameToken(<<"S", "P", "C">>, 1), NameToken(<<"C", "Z">>, 2)>> }

\* A message with every row the metadata methods look for: a file name of
\* the Emilia-Romagna composite, the date 2024-02-29 13:45 with month, day
\* and minute in continuation rows, an accumulation of 1 day and 2 hours,
\* a projection of type 0 and a grid of 2 rows of 3 pixels of 1000 m.
Complete ==
    [namefile |-> EmroName, tokens |-> EmroTokens,
     year |-> Value(2024), month |-> Value(2), day |-> Value(29),
     hour |-> Value(13), minute |-> Value(45), cont |-> TRUE,
     sig |-> Value(3), days |-> Value(1), hours |-> Value(2),
     clon |-> Value(11), clat |-> Value(44), smaj |-> Value(6378),
     smin |-> Value(6356), xoff |-> Value(100), yoff |-> Value(200),
     par1 |-> Value(30), par2 |-> Value(60), type |-> Value(0),
     ny |-> Value(2), nx |-> Value(3), dy |-> Value(1000), dx |-> Value(1000)]

\* Messages without a time-significance row, with one that is not 3, with
\* one or both duration rows gone, and with the word "missing" in them.
TimeMessages ==
    { Complete,
      [Complete EXCEPT !.sig = Absent],
      [Complete EXCEPT !.sig = Value(2)],
      [Complete EXCEPT !.days = Absent],
      [Complete EXCEPT !.hours = Absent],
      [Complete EXCEPT !.days = Absent, !.hours = Absent],
      [Complete EXCEPT !.sig = Absent, !.days = Absent, !.hours = Absent],
      [Complete EXCEPT !.sig = MissingValue],
      [Complete EXCEPT !.days = MissingValue] }

\* Messages without the date or the time marker row, with rows after the
\* marker that are no continuation rows, with the year row last, with an
\* impossible date and with the word "missing" for the year.
DateMessages ==
    { Complete,
      [Complete EXCEPT !.year = Absent],
      [Complete EXCEPT !.hour = Absent],
      [Complete EXCEPT !.cont = FALSE],
      [Complete EXCEPT !.month = Absent, !.day = Absent],
      [Complete EXCEPT !.day = Value(30)],
      [Complete EXCEPT !.year = MissingValue],
      [Complete EXCEPT !.minute = Value(60)] }

WithName(m, tokens) == [m EXCEPT !.namefile = NameOf(tokens), !.tokens = tokens]

NameMessages == { WithName(Complete, tokens) : tokens \in NameTokens }

\* The optional projection and grid rows, taken away group by group.
WithoutRows(m, rows) ==
    [m EXCEPT !.clon = IF "centre" \in rows THEN Absent ELSE @,
              !.clat = IF "centre" \in rows THEN Absent ELSE @,
              !.smaj = IF "axes" \in rows THEN Absent ELSE @,
              !.smin = IF "axes" \in rows THEN Absent ELSE @,
              !.xoff = IF "offsets" \in rows THEN Absent ELSE @,
              !.yoff = IF "offsets" \in rows THEN Absent ELSE @,
              !.par1 = IF "parallels" \in rows THEN Absent ELSE @,
              !.par2 = IF "parallels" \in rows THEN Absent ELSE @,
              !.type = IF "type" \in rows THEN Absent ELSE @,
              !.nx = IF "nx" \in rows THEN Absent ELSE @,
              !.ny = IF "ny" \in rows THEN Absent ELSE @,
              !.dx = IF "dx" \in rows THEN Absent ELSE @,
              !.dy = IF "dy" \in rows THEN Absent ELSE @]

ProjectionRows == {"centre", "axes", "offsets", "parallels", "type"}
GridRows == {"nx", "ny", "dx", "dy"}

GridMessages ==
    { WithoutRows([WithName(Complete, tokens) EXCEPT !.type = Value(type)], rows) :
        tokens \in {EmroTokens, RomaTokens, BoloTokens},
        type \in {0, 1, 3},
        rows \in { {}, {"centre"}, {"axes"}, {"offsets"}, {"parallels"}, {"type"},
                   ProjectionRows, {"nx"}, {"ny"}, {"dx"}, {"dy"},
                   ProjectionRows \cup GridRows } }

MetaMessages == TimeMessages \cup DateMessages \cup NameMessages \cup GridMessages

\* The text file decbufr writes for such a message.
MetaTableOf(m) ==
    (IF m.namefile = NoName THEN <<>>
     ELSE << <<" ", "3", " ", "2", "1", " ", "1", "9", "3", " ">> \o m.namefile \o <<"\n">> >>)
    \o OptRow(<<"3">>, <<"1">>, <<"1", "1">>, m.year)
    \o (IF m.year.kind = "absent" THEN <<>>
        ELSE IF m.cont
        THEN OptRow(<<>>, <<>>, <<>>, m.month) \o OptRow(<<>>, <<>>, <<>>, m.day)
        ELSE OptRow(<<"0">>, <<"4">>, <<"2">>, m.month) \o OptRow(<<"0">>, <<"4">>, <<"3">>, m.day))
    \o OptRow(<<"3">>, <<"1">>, <<"1", "2">>, m.hour)
    \o (IF m.hour.kind = "absent" THEN <<>>
        ELSE IF m.cont THEN OptRow(<<>>, <<>>, <<>>, m.minute)
        ELSE OptRow(<<"0">>, <<"4">>, <<"5">>, m.minute))
    \o OptRow(<<"0">>, <<"8">>, <<"2", "1">>, m.sig)
    \o OptRow(<<"0">>, <<"4">>, <<"2", "3">>, m.days)
    \o OptRow(<<"0">>, <<"4">>, <<"2", "4">>, m.hours)
    \o OptRow(<<"0">>, <<"2", "9">>, <<"2", "0", "1">>, m.type)
    \o OptRow(<<"0">>, <<"2", "9">>, <<"1", "9", "3">>, m.clon)
    \o OptRow(<<"0">>, <<"2", "9">>, <<"1", "9", "4">>, m.clat)
    \o OptRow(<<"0">>, <<"2", "9">>, <<"1", "9", "9">>, m.smaj)
    \o OptRow(<<"0">>, <<"2", "9">>, <<"2", "0", "0">>, m.smin)
    \o OptRow(<<"0">>, <<"2", "9">>, <<"1", "9", "5">>, m.xoff)
    \o OptRow(<<"0">>, <<"2", "9">>, <<"1", "9", "6">>, m.yoff)
    \o OptRow(<<"0">>, <<"2", "9">>, <<"1", "9", "7">>, m.par1)
    \o OptRow(<<"0">>, <<"2", "9">>, <<"1", "9", "8">>, m.par2)
    \o OptRow(<<"0">>, <<"3", "0">>, <<"2", "2">>, m.ny)
    \o OptRow(<<"0">>, <<"3", "0">>, <<"2", "1">>, m.nx)
    \o OptRow(<<"0">>, <<"6">>, <<"3", "3">>, m.dy)
    \o OptRow(<<"0">>, <<"5">>, <<"3", "3">>, m.dx)

InitMeta ==
    /\ self = NewBufr
    /\ disk \in { [bufr |-> m, txt |-> MetaTableOf(m)] : m \in MetaMessages }
    /\ handle = "none"
    /\ result = BufrCall("none", "", "", None)

\* bufr.meta = bufr.read_meta(fname_bufr_meta)
ReadMeta ==
    /\ self.meta = Unset
    /\ self' = [self EXCEPT !.meta = DataFrame(read_meta(disk.txt))]
    /\ result' = BufrCall("read_meta", "", "", None)
    /\ UNCHANGED <<disk, handle>>

\* bufr.get_acc_time_from_meta()
GetAccTimeFromMeta ==
    LET Done(r) ==
            /\ result' = BufrCall("get_acc_time_from_meta", "", r.err,
                                  IF r.err # "" THEN None ELSE Num(r.val))
            /\ UNCHANGED <<self, disk, handle>>
    IN /\ self.meta # Unset
       /\ Done(get_acc_time_from_meta(self.meta.rows))

\* bufr.get_datetime_from_meta()
GetDatetimeFromMeta ==
    LET Done(r) ==
            /\ result' = BufrCall("get_datetime_from_meta", "", r.err, r.dt)
            /\ UNCHANGED <<self, disk, handle>>
    IN /\ self.meta # Unset
       /\ Done(get_datetime_from_meta(self.meta.rows))

\* bufr.source, bufr.product = bufr.get_source_product_from_meta()
GetSourceProductFromMeta ==
    LET Done(r) ==
            /\ self' = [self EXCEPT !.source = r.source, !.product = r.product]
            /\ result' = BufrCall("get_source_product_from_meta", "", "", r)
            /\ UNCHANGED <<disk, handle>>
    IN /\ self.meta # Unset
       /\ Done(get_source_product_from_meta(self.meta.rows))

\* bufr.projection = bufr.get_projection_from_meta()
GetProjectionFromMeta ==
    \E utm \in UtmCorners :
        LET Done(r) ==
                /\ self' = IF r.err # "" THEN self
                           ELSE [self EXCEPT !.projection = r.proj]
                /\ result' = BufrCall("get_projection_from_meta", "", r.err, r.proj)
                /\ UNCHANGED <<disk, handle>>
        IN /\ self.meta # Unset
           /\ self.source # Unset
           /\ Done(get_projection_from_meta(self.meta.rows, self.source, utm))

\* bufr.grid = bufr.get_grid_from_meta()
GetGridFromMeta ==
    LET Done(r) ==
            /\ self' = IF r.err # "" THEN self ELSE [self EXCEPT !.grid = r.grid]
            /\ result' = BufrCall("get_grid_from_meta", "", r.err, r.grid)
            /\ UNCHANGED <<disk, handle>>
    IN /\ self.meta # Unset
       /\ self.projection # Unset
       /\ Done(get_grid_from_meta(self.meta.rows, self.projection))

NextMeta ==
    \/ ReadMeta
    \/ GetAccTimeFromMeta
    \/ GetDatetimeFromMeta
    \/ GetSourceProductFromMeta
    \/ GetProjectionFromMeta
    \/ GetGridFromMeta

SpecMeta == InitMeta /\ [][NextMeta]_vars

\* What a duration row contributes: its whole number, 0 when the row is
\* absent.
Contribution(o) == IF o.kind = "value" THEN o.n ELSE 0

\* The accumulation time stated for a message: 0 unless it has a
\* time-significance row of value 3, else -(24 * days + hours).
StatedAccTime(m) ==
    IF m.sig = Value(3)
    THEN 0 - (24 * Contribution(m.days) + Contribution(m.hours))
    ELSE 0

\* C22: get_acc_time_from_meta returns 0 for every table without a row
\* (0,8,21) of value 3.0, and -(int(24*a) + int(b)) for a table with one,
\* a and b being the values of the rows (0,4,23) and (0,4,24); a missing
\* duration row contributes 0 and the method does not raise.
C22_AccTime ==
    result.op = "get_acc_time_from_meta"
    => /\ result.err = ""
       /\ result.value = Num(StatedAccTime(disk.bufr))

\* C22 for the tables whose three rows, where present, hold numbers.
C22_NumericRows ==
    (\A o \in {disk.bufr.sig, disk.bufr.days, disk.bufr.hours} : o.kind # "missing")
    => C22_AccTime

\* The accumulation time of a table with the marker and one duration row.
C22_OneDurationRow ==
    /\ result.op = "get_acc_time_from_meta"
    /\ disk.bufr.sig = Value(3)
    /\ disk.bufr.days.kind = "absent"
    /\ disk.bufr.hours.kind = "value"
    /\ result.value = Num(0 - disk.bufr.hours.n)

\* C23: get_datetime_from_meta never raises: for every table it returns a
\* timestamp or None.
C23_DatetimeNeverRaises ==
    result.op = "get_datetime_from_meta" => result.err = ""

\* The month of a message as the method reads it: the value of the row
\* after the date marker when that is a continuation row, else 0.
ReadOrZero(m, o) == IF m.cont /\ o.kind = "value" THEN o.n ELSE 0

\* C23 for the tables that have the date marker row with a number: the
\* result is the timestamp of the fields read, a field that cannot be
\* read being 0, or None when these are no calendar date.
C23_WithDateMarker ==
    ( /\ result.op = "get_datetime_from_meta"
      /\ disk.bufr.year.kind = "value" )
    => /\ result.err = ""
       /\ result.value =
             IF IsDatetime(disk.bufr.year.n,
                           ReadOrZero(disk.bufr, disk.bufr.month),
                           ReadOrZero(disk.bufr, disk.bufr.day),
                           Contribution(disk.bufr.hour),
                           IF disk.bufr.hour.kind = "value"
                           THEN ReadOrZero(disk.bufr, disk.bufr.minute) ELSE 0)
             THEN [kind |-> "datetime", year |-> disk.bufr.year.n,
                   month |-> disk.bufr.month.n, day |-> disk.bufr.day.n,
                   hour |-> Contribution(disk.bufr.hour),
                   minute |-> IF disk.bufr.hour.kind = "value"
                              THEN disk.bufr.minute.n ELSE 0]
             ELSE None

\* A table without the date marker row has been asked for its timestamp.
C23_NoDateMarker ==
    /\ result.op = "get_datetime_from_meta"
    /\ disk.bufr.year.kind = "absent"

\* The family of a file name: the first of EMRO, PIEM, ROMA its text
\* before ".BUFR" contains.
Family(tokens) ==
    IF Contains(JoinTokens(tokens), <<"E", "M", "R", "O">>) THEN "EMRO"
    ELSE IF Contains(JoinTokens(tokens), <<"P", "I", "E", "M">>) THEN "PIEM"
    ELSE IF Contains(JoinTokens(tokens), <<"R", "O", "M", "A">>) THEN "ROMA"
    ELSE "none"

\* The number of tokens the policy of a family reads.
TokensRead(family) == IF family = "ROMA" THEN 3 ELSE 5

\* The source and the product name stated for a name of a family.
StatedSource(family, tokens) ==
    [name_source |->
         IF family = "EMRO" THEN Str(tokens[4].text)
         ELSE IF family = "PIEM"
         THEN Str(<<"B", "r", "i", "c", " ", "d", "e", "l", "l", "a", " ",
                    "C", "r", "o", "c", "e", ",", "M", "o", "n", "t", "e", " ",
                    "S", "e", "t", "t", "e", "p", "a", "n", "i">>)
         ELSE Str(<<"M", "o", "s", "a", "i", "c", "o", " ", "r", "a", "d", "a", "r",
                    " ", "n", "a", "z", "i", "o", "n", "a", "l", "e">>),
     name_file |-> Str(JoinTokens(tokens) \o <<".", "B", "U", "F", "R">>),
     emission_center |->
         IF family = "EMRO" THEN Str("Arpae Emilia-Romagna")
         ELSE IF family = "PIEM" THEN Str("Arpa Piemonte")
         ELSE Str("DPC")]

StatedProduct(family, tokens) ==
    LET token == tokens[TokensRead(family)].text
    IN IF token = <<"S", "R">> THEN <<"S", "R", "I">>
       ELSE IF token = <<"C", "Z">> /\ family = "EMRO" THEN <<"L", "B", "M">>
       ELSE token

\* C24: for a file name of one of the families EMRO, PIEM, ROMA (the
\* first one its text contains) with the tokens the family's policy
\* reads, get_source_product_from_meta returns the family's name_source
\* and emission_center, name_file = B + ".BUFR", and the product named by
\* the 5th token (3rd for ROMA) stripped of "@", "CZ" renamed "LBM" for
\* EMRO only and "SR" renamed "SRI" for all.
C24_SourceProductPolicies ==
    ( /\ result.op = "get_source_product_from_meta"
      /\ Family(disk.bufr.tokens) # "none"
      /\ Len(disk.bufr.tokens) >= TokensRead(Family(disk.bufr.tokens)) )
    => /\ result.value.source =
              StatedSource(Family(disk.bufr.tokens), disk.bufr.tokens)
       /\ result.value.product.name =
              Str(StatedProduct(Family(disk.bufr.tokens), disk.bufr.tokens))

\* A name of two families has been read as one of the first, its padded
\* tokens stripped.
C24_Witness ==
    /\ result.op = "get_source_product_from_meta"
    /\ Contains(disk.bufr.namefile, <<"R", "O", "M", "A">>)
    /\ result.value.source.emission_center = Str("Arpae Emilia-Romagna")
    /\ result.value.source.name_source = Str(<<"S", "P", "C">>)
    /\ result.value.product.name = Str(<<"S", "R", "T">>)

\* "CZ" has been renamed for EMRO.
C24_Renamed ==
    /\ result.op = "get_source_product_from_meta"
    /\ disk.bufr.tokens = EmroTokens
    /\ result.value.product.name = Str(<<"L", "B", "M">>)

\* "CZ" has been kept for PIEM.
C24_NotRenamed ==
    /\ result.op = "get_source_product_from_meta"
    /\ Family(disk.bufr.tokens) = "PIEM"
    /\ result.value.product.name = Str(<<"C", "Z">>)

\* Reading the source fails: there is no name row, or the name has fewer
\* tokens than the policy of its family reads.
SourceFails(tokens) ==
    \/ tokens = <<>>
    \/ /\ Family(tokens) # "none"
       /\ Len(tokens) < TokensRead(Family(tokens))

\* Reading the product fails: reading the source failed, or the name is
\* of no family.
ProductFails(tokens) == SourceFails(tokens) \/ Family(tokens) = "none"

\* C25: get_source_product_from_meta does not raise, and a record whose
\* extraction fails (no name row, too few tokens, no family recognised)
\* is returned with exactly its default values: name_source "Unknown",
\* name_file and emission_center unset; product name and long_name "None".
C25_DefaultsOnFailure ==
    result.op = "get_source_product_from_meta"
    => /\ result.err = ""
       /\ SourceFails(disk.bufr.tokens)
            => result.value.source =
                   [name_source |-> Str(<<"U", "n", "k", "n", "o", "w", "n">>),
                    name_file |-> None, emission_center |-> None]
       /\ ProductFails(disk.bufr.tokens)
            => result.value.product =
                   [name |-> Str(<<"N", "o", "n", "e">>), long_name |-> Str("None")]

\* C25 without the names that have the first tokens their family's
\* policy reads but not the last.
C25_NothingAssignedBeforeFailure ==
    ( \/ disk.bufr.tokens = <<>>
      \/ Family(disk.bufr.tokens) = "none"
      \/ Len(disk.bufr.tokens) >= TokensRead(Family(disk.bufr.tokens))
      \/ Family(disk.bufr.tokens) = "EMRO" /\ Len(disk.bufr.tokens) < 4 )
    => C25_DefaultsOnFailure

\* A table without a name row has given the two default records.
C25_NoNameRow ==
    /\ result.op = "get_source_product_from_meta"
    /\ disk.bufr.tokens = <<>>
    /\ result.value.source.name_file = None

\* An optional row as the projection holds it: its value, or 0.0 when
\* the row is absent.
OrZeroReal(o) == Real(IF o.kind = "value" THEN 2 * o.n ELSE 0)

\* The radar of an Emilia-Romagna name whose centre the method knows.
KnownRadar(m) ==
    /\ Family(m.tokens) = "EMRO"
    /\ Len(m.tokens) >= 4
    /\ m.tokens[4].text \in {<<"G", "A", "T">>, <<"S", "P", "C">>}

\* The projection formats its centre: the source is the DPC with
\* projection type 3, or Emilia-Romagna with type 0.
CentreFormatted(m) ==
    \/ Family(m.tokens) = "ROMA" /\ m.type = Value(3)
    \/ Family(m.tokens) = "EMRO" /\ Len(m.tokens) >= 5 /\ m.type = Value(0)

\* C26: on a table in which any of the optional projection and grid rows
\* is absent, get_projection_from_meta and get_grid_from_meta, called in
\* read_bufr's order after the source, return a record and do not raise;
\* an absent offset or parallel is 0.0, an absent axis is 0.0 unless the
\* DPC's type 3 replaces it, and an absent centre coordinate is unset
\* unless the radar is one whose centre the method knows.
C26_MissingRowsRecovered ==
    /\ result.op \in {"get_projection_from_meta", "get_grid_from_meta"}
         => result.err = "" /\ result.value # None
    /\ (result.op = "get_projection_from_meta" /\ result.err = "")
         => /\ (disk.bufr.smaj.kind = "absent" /\ ~CentreFormatted(disk.bufr))
                 => result.value.semimajor_axis = Real(0)
            /\ (disk.bufr.smin.kind = "absent" /\ ~CentreFormatted(disk.bufr))
                 => result.value.semiminor_axis = Real(0)
            /\ disk.bufr.xoff.kind = "absent" => result.value.x_offset = Real(0)
            /\ disk.bufr.yoff.kind = "absent" => result.value.y_offset = Real(0)
            /\ disk.bufr.par1.kind = "absent" => result.value.standard_par1 = Real(0)
            /\ disk.bufr.par2.kind = "absent" => result.value.standard_par2 = Real(0)
            /\ (disk.bufr.clon.kind = "absent"
                  /\ ~(KnownRadar(disk.bufr) /\ disk.bufr.type = Value(0)))
                 => /\ result.value.center_longitude = None
                    /\ result.value.center_latitude = None

\* C26 for the tables that hold the four grid rows, and the centre rows
\* when the projection formats the centre.
C26_WithGridRows ==
    ( /\ \A o \in {disk.bufr.nx, disk.bufr.ny, disk.bufr.dx, disk.bufr.dy} :
            o.kind = "value"
      /\ (CentreFormatted(disk.bufr) /\ ~KnownRadar(disk.bufr))
            => disk.bufr.clon.kind = "value" )
    => C26_MissingRowsRecovered

\* The grid of a table without the nx row has been asked for.
C26_NoNxRow ==
    /\ result.op = "get_grid_from_meta"
    /\ disk.bufr.nx.kind = "absent"
    /\ disk.bufr.ny.kind = "value"
    /\ result.err = "AttributeError"

\* The projection of a DPC table without the centre rows has been asked
\* for.
C26_NoCentreRows ==
    /\ result.op = "get_projection_from_meta"
    /\ disk.bufr.clon.kind = "absent"
    /\ Family(disk.bufr.tokens) = "ROMA"
    /\ result.err = "TypeError"

\* ---------------------------------------------------------------------
\* StructVariable: the lookup of a variable class by the name of its
\* instances. Of the attributes of a variable the model keeps name and
\* long_name.
\* ---------------------------------------------------------------------

\* An instance of a class of variables.
VarInstance(cls, name, long_name) ==
    [cls |-> cls, name |-> Str(name), long_name |-> Str(long_name)]

\* StructVariable(): every attribute None.
StructVariable == [cls |-> "StructVariable", name |-> None, long_name |-> None]

\* What StructVariable.__subclasses__() lists once rad_var_class is
\* imported: an instance of each class, in the order of the module.
rad_var_class ==
    <<VarInstance("VarPr", "pr", "Radar precipitation flux"),
      VarInstance("VarZ60", "Z_60", "Radar reflectivity factor"),
      VarInstance("VarCumPrr", "cum_pr", "Radar Precipitation amount"),
      VarInstance("VarZdr", "ZDR", "Radar Differential Reflectivity"),
      VarInstance("VarVn16", "VN16", "Doppler Radar Velocity"),
      VarInstance("VarVn49", "VN49", "Doppler Radar Velocity"),
      VarInstance("VarSv", "sV", "Doppler Radar Velocity Spectrum Width"),
      VarInstance("VarQc", "qc", "Quality"),
      VarInstance("VarPrmm", "pr_mm", "Radar precipitation flux"),
      VarInstance("VarCumPrmm", "cum_pr_mm", "Radar precipitation amount"),
      VarInstance("VarZ", "Z", "Radar reflectivity factor"),
      VarInstance("VarTh", "Z", "Uncorrected Radar reflectivity factor"),
      VarInstance("VarDbzh", "DBZH", "Radar reflectivity factor"),
      VarInstance("VarVrad", "VRAD", "Doppler Radar Velocity"),
      VarInstance("VarWrad", "WRAD", "Doppler Radar Velocity Spectrum Width"),
      VarInstance("VarRhohv", "RHOHV", "Correlation ZH-ZV"),
      VarInstance("VarPhidp", "PHIDP", "Differential phase"),
      VarInstance("VarHght", "HGHT", "Height"),
      VarInstance("VarDbzV", "DBZV", "Radar reflectivity factor"),
      VarInstance("VarPoh", "POH", "Probability of Hail"),
      VarInstance("VarVil", "VIL", "Vertical integrated liquid Water"),
      VarInstance("VarClassConv", "CLASS_CONV", "Convective-Stratiform class"),
      VarInstance("VarSnr", "SNR", "Signal Noise Ratio"),
      VarInstance("VarClass", "CLASS", "Hydrometeor Classification"),
      VarInstance("VarVilDensity", "VILdensity", "Hail size"),
      VarInstance("VarRate", "RATE", "Rain Rate"),
      VarInstance("VarAcrr", "ACRR", "Accumulated precipitation"),
      VarInstance("VarClassId", "ClassID", "Fuzzy logic class")>>

\* The loop of set_cls_by_name from subclass i on: outcls is the instance
\* of each class in turn, and the loop breaks on the first whose name is
\* varname.
RECURSIVE SubclassLoop(_, _, _, _)
SubclassLoop(subclasses, varname, i, outcls) ==
    IF i > Len(subclasses) THEN outcls
    ELSE IF subclasses[i].name = varname THEN subclasses[i]
    ELSE SubclassLoop(subclasses, varname, i + 1, subclasses[i])

\* StructVariable.set_cls_by_name(varname)
set_cls_by_name(subclasses, varname) ==
    IF varname = None THEN None
    ELSE SubclassLoop(subclasses, varname, 1, None)

\* StructVariable.set_var_by_name(varname): the instance with the
\* attributes of the variable found copied onto it, or the exception that
\* leaves the method.
set_var_by_name(obj, subclasses, varname) ==
    LET Copied(clsvar) ==
            IF clsvar = None THEN [obj |-> obj, err |-> "AttributeError"]
            ELSE [obj |-> [obj EXCEPT !.name = clsvar.name,
                                      !.long_name = clsvar.long_name],
                  err |-> ""]
    IN IF varname = None THEN [obj |-> obj, err |-> ""]
       ELSE Copied(set_cls_by_name(subclasses, varname))

\* The names a caller asks for: those of the classes, names of no class,
\* and None.
VarNames ==
    { Str(rad_var_class[i].name.text) : i \in 1..Len(rad_var_class) }
    \cup { Str("Z_50"), Str("dbzh"), Str(""), None }

VarCall(op, varname, err, value) ==
    [op |-> op, varname |-> varname, err |-> err, value |-> value]

InitVar ==
    /\ self = StructVariable
    /\ disk \in { [subclasses |-> rad_var_class], [subclasses |-> <<>>] }
    /\ handle = "none"
    /\ result = VarCall("none", None, "", None)

\* StructVariable.set_cls_by_name(varname)
SetClsByName ==
    \E varname \in VarNames :
        /\ result' = VarCall("set_cls_by_name", varname, "",
                             set_cls_by_name(disk.subclasses, varname))
        /\ UNCHANGED <<self, disk, handle>>

\* myvar.set_var_by_name(varname)
SetVarByName ==
    \E varname \in VarNames :
        LET Done(r) ==
                /\ self' = r.obj
                /\ result' = VarCall("set_var_by_name", varname, r.err, None)
                /\ UNCHANGED <<disk, handle>>
        IN Done(set_var_by_name(self, disk.subclasses, varname))

NextVar == SetClsByName \/ SetVarByName

SpecVar == InitVar /\ [][NextVar]_vars

\* The name is that of a class of variables.
KnownName(varname) ==
    \E i \in 1..Len(rad_var_class) : rad_var_class[i].name = varname

\* C27: set_cls_by_name(varname) returns None when varname is None and,
\* for every other varname, an instance of a subclass of StructVariable
\* whose name is varname; set_var_by_name(varname) then leaves the
\* instance with that name, never with the attributes of a variable of
\* another name.
C27_LookupByName ==
    disk.subclasses # <<>>
    => /\ (result.op = "set_cls_by_name" /\ result.varname = None)
            => result.value = None
       /\ (result.op = "set_cls_by_name" /\ result.varname # None)
            => /\ result.value # None
               /\ result.value.name = result.varname
       /\ (result.op = "set_var_by_name" /\ result.varname # None)
            => /\ result.err = ""
               /\ self.name = result.varname

\* C27 for the names that are those of a class.
C27_KnownNames ==
    (result.varname = None \/ KnownName(result.varname)) => C27_LookupByName

\* A name of no class has been looked up.
C27_UnknownName ==
    /\ disk.subclasses # <<>>
    /\ result.op = "set_cls_by_name"
    /\ result.varname = Str("Z_50")
    /\ result.value # None

\* A table with a marker row whose lower bound is 0 has been decoded by
\* get_var_levs_from_meta under a fill method it knows.
LowerBoundZero ==
    /\ result.op = "get_var_levs_from_meta"
    /\ result.fill_method \in {"min", "ave", "max"}
    /\ disk.has_txt
    /\ disk.bufr.marker # "none"
    /\ disk.bufr.b = 0

\* C30: for a table of a DPC source whose field is reflectivity and whose
\* lower bound is 0, with or without a replication descriptor after the
\* marker, get_var_levs_from_meta completes and its first level is -31;
\* for every other source or variable the first level is the lower bound
\* 0.
C30_LowerBoundPatch ==
    LowerBoundZero
    => /\ result.err = ""
       /\ result.value.levels.values[1] =
              (IF DpcPatched(disk.bufr) THEN -62 ELSE 0)

\* C30 for the tables in which a replication descriptor follows the
\* marker of a patched lower bound and every numeric value is above the
\* lower bound.
C30_WithReplication ==
    ( /\ DpcPatched(disk.bufr) => disk.bufr.rep
      /\ \A i \in 1..Len(disk.bufr.v) :
            disk.bufr.v[i].missing \/ disk.bufr.v[i].n > disk.bufr.b )
    => C30_LowerBoundPatch

\* A DPC reflectivity table with lower bound 0 and no replication
\* descriptor has been decoded.
C30_NoReplication ==
    /\ LowerBoundZero
    /\ DpcPatched(disk.bufr)
    /\ ~disk.bufr.rep

\* A DPC reflectivity table with lower bound 0 and a replication
\* descriptor has been decoded, and its first level is -31.
C30_Patched ==
    /\ LowerBoundZero
    /\ DpcPatched(disk.bufr)
    /\ disk.bufr.rep
    /\ result.err = ""
    /\ result.value.levels.values[1] = -62

\* ---------------------------------------------------------------------
\* The export path: a hierarchy is read or assembled, and written.
\* ---------------------------------------------------------------------

\* A volume of ten elevations of two quantities each, the angle of
\* dataset<n> being n: h5py enumerates dataset10 before dataset2.
TenElevations == [n \in 1..10 |-> [elangle |-> n, quantities |-> <<"DBZH", "Z_VD">>]]

\* A ragged volume: one, three and two quantities.
RaggedVolume ==
    <<[elangle |-> 5, quantities |-> <<"DBZH">>],
      [elangle |-> 9, quantities |-> <<"DBZH", "Z_VD", "VRAD">>],
      [elangle |-> 14, quantities |-> <<"Z_VD", "DBZH">>]>>

\* the files of the export path
ExportFiles ==
    UserFiles \cup {FileOf(<<{"task"}>>, TenElevations), FileOf(<<{"task"}>>, RaggedVolume)}

InitExport ==
    /\ self = NewPvol
    /\ disk \in ExportFiles
    /\ handle = "none"
    /\ result = Call("none", {}, 0, "", "", <<>>)

\* the export path: read_odim of the file last named, setistance, export_odim
NextExport ==
    \/ ReadOdim
    \/ SetIstance
    \/ ExportOdim

SpecExport == InitExport /\ [][NextExport]_vars

Min2(a, b) == IF a <= b THEN a ELSE b

\* The hierarchy has its fields, and each of its per-elevation lists has
\* n_group_dataset entries.
WellFormed(obj) ==
    /\ FieldNames \subseteq obj.has
    /\ Len(obj.group_datasets_what) = obj.n_group_dataset
    /\ Len(obj.group_datasets_where) = obj.n_group_dataset
    /\ Len(obj.group_datasets_how_polar) = obj.n_group_dataset
    /\ Len(obj.group_datasets_how_radar) = obj.n_group_dataset
    /\ Len(obj.datasets) = obj.n_group_dataset
    /\ Len(obj.group_datasets_data_what) = obj.n_group_dataset
    /\ \A p \in 1..obj.n_group_dataset :
          Len(obj.group_datasets_data_what[p]) = Len(obj.datasets[p])

\* The list positions 1..N-1, and the quantity positions
\* 1..min(M-1, number of quantities) of the elevation at position p.
StatedElevations(obj) == 1..(obj.n_group_dataset - 1)
StatedQuantities(obj, p) == 1..Min2(obj.n_datasets - 1, Len(obj.datasets[p]))

\* The data arrays of a store, each with the number of its data<m> group.
ArraysIn(store) ==
    UNION { { <<m, store.groups[n].data[m].data[1]>> :
                m \in {k \in DOMAIN store.groups[n].data :
                          store.groups[n].data[k].data # <<>>} } :
            n \in DOMAIN store.groups }

\* The what groups of the data<m> groups of a store: place and quantity.
DataWhatsIn(store) ==
    UNION { { <<n, m, Decode(store.groups[n].data[m].what[1].quantity)>> :
                m \in {k \in DOMAIN store.groups[n].data :
                          store.groups[n].data[k].what # <<>>} } :
            n \in DOMAIN store.groups }

C29_DataWithItsElevation ==
    (result.op = "export_odim" /\ result.err = "" /\ WellFormed(self))
    => \A p \in StatedElevations(self) : \A q \in StatedQuantities(self, p) :
          LET n == self.group_datasets_where[p].hierarchy
          IN /\ n \in DOMAIN disk.groups
             /\ disk.groups[n].where = <<self.group_datasets_where[p].elangle>>
             /\ q \in DOMAIN disk.groups[n].data
             /\ disk.groups[n].data[q].data = <<F32(self.datasets[p][q])>>

\* The group of every elevation is named by its list position.
NamedByPosition(obj) ==
    \A p \in 1..Len(obj.group_datasets_where) :
        obj.group_datasets_where[p].hierarchy = p

\* C29 for the hierarchies whose groups are named by their list position.
C29_NamedByPosition ==
    NamedByPosition(self) => C29_DataWithItsElevation

\* A hierarchy read from a file that enumerates dataset10 before
\* dataset2 has been exported.
C29_DiscoveryOrder ==
    /\ result.op = "export_odim"
    /\ result.err = ""
    /\ WellFormed(self)
    /\ self.n_group_dataset = 10
    /\ self.group_datasets_where[2].hierarchy = 10
    /\ ArraysIn(disk) # {}

\* A hierarchy built by setistance has been exported with its arrays.
C29_BuiltBySetistance ==
    /\ result.op = "export_odim"
    /\ result.err = ""
    /\ WellFormed(self)
    /\ "varsnames" \notin self.has
    /\ ArraysIn(disk) # {}

====
